---------------------------- MODULE Spec2Model ----------------------------
(***************************************************************************)
(* Session orchestration and streaming event multiplexer of the Copilot    *)
(* SDK demo server (copilot.ts: sendMessage and the registries it uses).   *)
(*                                                                         *)
(* One exchange is one call of sendMessage.  Its local variables, its      *)
(* timers and the callbacks it has delivered are one record of ex; the     *)
(* module-level message history cache is cache.  Every handler of the      *)
(* source is an operator from a state record [ex, cache] to the state      *)
(* record after the handler has run, so that a handler that calls          *)
(* finalize or cleanup is the composition the code executes.               *)
(***************************************************************************)
EXTENDS Integers, Sequences, FiniteSets, TLC

VARIABLES
    ex,             \* exchange id -> the state of that sendMessage call
    cache,          \* messageHistoryCache: session id -> list of {role, content}
    activeSessions, \* session id -> the cached session handle
    reads,          \* call id -> the state of that getSessionMessages call
    sessionAgentMap,        \* session id -> agent id
    sessionPermissionPolicy, \* session id -> permission policy
    userInputHandlers,      \* session id -> user-input responder
    permissionHandlers,     \* session id -> permission responder
    runtime,        \* the Copilot runtime: the sessions it lists, the session
                    \* objects it has handed out
    calls,          \* call id -> the state of that call of getOrCreateSession,
                    \* deleteSession or abortSession
    requests,       \* request id -> the permission or user-input request the
                    \* runtime has made through a session's hooks
    registration    \* the last call of a set...Handler or clear...Handler

vars == <<ex, cache, activeSessions, reads, sessionAgentMap, sessionPermissionPolicy,
          userInputHandlers, permissionHandlers, runtime, calls, requests,
          registration>>

---------------------------------------------------------------------------
(* Bounds of the model *)

\* Number of runtime events delivered to the listeners of one exchange,
\* in Spec and in FairSpec.
MaxEvents == 3
MaxFairEvents == 2

\* In CacheSpec: the runtime events of one exchange, the calls of
\* getSessionMessages per caller, and by how many entries the shortest
\* history that a session starts with stays below the bound of the cache.
MaxCacheEvents == 1
MaxReads == 1
Slack == 1

\* In LifecycleSpec: the calls made through one call slot.
MaxCalls == 1
\* runtime events per exchange while abortSession calls interleave
MaxAbortEvents == 1
\* In RouterSpec: the requests the runtime makes through one request slot.
MaxRequests == 1
\* In PairSpec: the runtime events of each of the two exchanges.
MaxPairEvents == 1
\* In DeleteSpec: the runtime events of the exchange that deleteSession
\* calls interleave with.
MaxDeleteEvents == 1
\* In SyncSpec: the tool events a sync exchange receives while it waits.
MaxSyncEvents == 2

---------------------------------------------------------------------------
(* Program constants *)

MAX_MESSAGES_PER_SESSION == 100
chunkSize == 24

(* Inputs *)

Exchanges == {1}
SessionIds == {"s1"}
sessionIdOf(e) == IF e = 1 THEN "s1" ELSE "s2"
promptOf(e) == "ask"

Short == "hi"
Long == "abcdefghijklmnopqrstuvwxyz"
Blank == " "
MessageContents == {"", Blank, Short, Long}
DeltaTexts == {"", "x"}
ToolCallIds == {"c1", "c2"}
ToolNames == {"grep", "ls"}
ErrorMessages == {"", "boom"}

NoName == "?"
UnknownError == "unknown error"
TimeoutError == "message response timed out"
SendError == "send failed"
SessionError == "session unavailable"

---------------------------------------------------------------------------
(* Helpers *)

Min(a, b) == IF a < b THEN a ELSE b

\* content.trim().length > 0 is false
IsBlank(s) == \A i \in 1..Len(s) : SubSeq(s, i, i) = " "

\* content.slice(i, i + chunkSize), i counted from 0
Slice(s, i) == SubSeq(s, i + 1, Min(i + chunkSize, Len(s)))

State ==
    [ex |-> ex, cache |-> cache, activeSessions |-> activeSessions, reads |-> reads,
     sessionAgentMap |-> sessionAgentMap,
     sessionPermissionPolicy |-> sessionPermissionPolicy,
     userInputHandlers |-> userInputHandlers,
     permissionHandlers |-> permissionHandlers,
     runtime |-> runtime, calls |-> calls, requests |-> requests,
     registration |-> registration]

\* Map: the keys are the domain of the function
EmptyMap == [k \in {} |-> 0]
MapSet(m, k, v) == [x \in (DOMAIN m) \cup {k} |-> IF x = k THEN v ELSE m[x]]
MapDelete(m, k) == [x \in (DOMAIN m) \ {k} |-> m[x]]

---------------------------------------------------------------------------
(* messageHistoryCache *)

\* addMessageToCache with the fault of trimming at the wrong end
AddMessageKeepsOldest(c, sid, role, content) ==
    LET messages == IF sid \in DOMAIN c THEN c[sid] ELSE <<>>
        pushed == Append(messages, [role |-> role, content |-> content])
        trimmed == IF Len(pushed) > MAX_MESSAGES_PER_SESSION
                   THEN SubSeq(pushed, 1, MAX_MESSAGES_PER_SESSION)
                   ELSE pushed
    IN  [s \in (DOMAIN c) \cup {sid} |-> IF s = sid THEN trimmed ELSE c[s]]

\* addMessageToCache with the fault of appending to the list of every
\* session
AddMessageToEveryList(c, sid, role, content) ==
    LET entry == [role |-> role, content |-> content]
    IN  [s \in (DOMAIN c) \cup {sid} |->
            IF s \in DOMAIN c THEN Append(c[s], entry) ELSE <<entry>>]

AddMessageToCache(c, sid, role, content) ==
    LET messages == IF sid \in DOMAIN c THEN c[sid] ELSE <<>>
        pushed == Append(messages, [role |-> role, content |-> content])
        excess == Len(pushed) - MAX_MESSAGES_PER_SESSION
        trimmed == IF Len(pushed) > MAX_MESSAGES_PER_SESSION
                   THEN SubSeq(pushed, excess + 1, Len(pushed))
                   ELSE pushed
    IN  [s \in (DOMAIN c) \cup {sid} |-> IF s = sid THEN trimmed ELSE c[s]]

---------------------------------------------------------------------------
(* Session registry: createSession, getOrCreateSession, deleteSession,     *)
(* abortSession.  The client is running, so await getClient() resolves in  *)
(* the turn of the call.                                                   *)

NoAgent == ""
NoHandle == 0
DefaultAgent == "default"
KnownAgents == {DefaultAgent, "auto", "strict"}
\* the agentId argument of a call
AgentIds == {NoAgent, "auto", "strict"}
Policies == {"ask-user", "auto-approve", "deny-all"}

\* getAgentById(agentId)?.permissionPolicy, "" when the agent sets none
AgentPermissionPolicy(agentId) ==
    CASE agentId = "auto" -> "auto-approve"
      [] agentId = "strict" -> "deny-all"
      [] OTHER -> ""

\* buildSessionConfig(agentId).permissionPolicy
BuildSessionConfig(agentId) ==
    IF agentId # NoAgent /\ agentId \in KnownAgents
          /\ AgentPermissionPolicy(agentId) # ""
    THEN AgentPermissionPolicy(agentId)
    ELSE "ask-user"

\* createSession lines 912-925: resolvedAgentId
ResolveAgent(agentId) ==
    IF agentId # NoAgent /\ agentId \in KnownAgents THEN agentId ELSE DefaultAgent

Calls == {1, 2}
callSessionOf(c) == "s1"

\* One call of getOrCreateSession, deleteSession or abortSession: its
\* parameters and locals, where it stands (pc), the runtime calls it has
\* issued, and how it ended.  list, resume and destroy record for the
\* properties how those runtime calls settled.
NewCall(c) ==
    [ op              |-> "none",
      sessionId       |-> callSessionOf(c),
      agentId         |-> NoAgent,
      existingAgentId |-> NoAgent,
      resolvedAgentId |-> NoAgent,
      pc              |-> "idle",
      issued          |-> <<>>,
      outcome         |-> "none",
      handle          |-> NoHandle,
      n               |-> 0,
      list            |-> "none",
      resume          |-> "none",
      destroy         |-> "none" ]

\* the runtime hands out a new session object; its handle is its index.
\* hook says which pair of hooks it carries, permPolicy is the policy that
\* the permission hook has captured.
NewObject(st, sid, hook, permPolicy) ==
    [st EXCEPT !.runtime.objects =
        Append(@, [sessionId |-> sid, hook |-> hook, permPolicy |-> permPolicy])]

\* createSession lines 966-990 for an explicit id: client.createSession
\* has resolved
SessionCreated(st, sid, agentId) ==
    LET resolvedAgentId == ResolveAgent(agentId)
        permPolicy == BuildSessionConfig(resolvedAgentId)
        s1 == NewObject(st, sid, "create", permPolicy)
        session == Len(s1.runtime.objects)
    IN  [s1 EXCEPT !.runtime.listed = @ \cup {sid},
                   !.activeSessions = MapSet(@, sid, session),
                   !.sessionAgentMap = MapSet(@, sid, resolvedAgentId),
                   !.sessionPermissionPolicy = MapSet(@, sid, permPolicy)]

\* getOrCreateSession lines 1015-1041: client.resumeSession has resolved
SessionResumed(st, sid, existingAgentId) ==
    LET permissionPolicy == BuildSessionConfig(existingAgentId)
        s1 == NewObject(st, sid, "resume", permissionPolicy)
        session == Len(s1.runtime.objects)
    IN  [s1 EXCEPT !.runtime.listed = @ \cup {sid},
                   !.activeSessions = MapSet(@, sid, session),
                   !.sessionPermissionPolicy = MapSet(@, sid, permissionPolicy)]

\* return session / throw: the call is over
Returned(st, c, session) ==
    [st EXCEPT !.calls[c].pc = "returned",
               !.calls[c].outcome = "returned",
               !.calls[c].handle = session]

\* a call of deleteSession or abortSession returns
Finished(st, c) ==
    [st EXCEPT !.calls[c].pc = "returned", !.calls[c].outcome = "returned"]

Threw(st, c) ==
    [st EXCEPT !.calls[c].pc = "returned", !.calls[c].outcome = "threw"]

\* a call starts in slot c
Called(st, c, op, agentId) ==
    [st EXCEPT !.calls[c] = [NewCall(c) EXCEPT !.op = op, !.agentId = agentId,
                                               !.n = st.calls[c].n + 1]]

\* getOrCreateSession with the fault of not looking into activeSessions
GetOrCreateSkipsCache(st, c, agentId) ==
    LET s1 == Called(st, c, "getOrCreate", agentId)
        sid == s1.calls[c].sessionId
    IN  [s1 EXCEPT !.calls[c].existingAgentId =
                       IF sid \in DOMAIN st.sessionAgentMap
                       THEN st.sessionAgentMap[sid] ELSE agentId,
                   !.calls[c].pc = "listing",
                   !.calls[c].issued = Append(@, "list")]

\* getOrCreateSession lines 1004-1013, up to await client.listSessions()
BeginGetOrCreate(st, c, agentId) ==
    LET s1 == Called(st, c, "getOrCreate", agentId)
        sid == s1.calls[c].sessionId
    IN  IF sid \in DOMAIN st.activeSessions
        THEN Returned(s1, c, st.activeSessions[sid])
        ELSE [s1 EXCEPT !.calls[c].existingAgentId =
                            IF sid \in DOMAIN st.sessionAgentMap
                            THEN st.sessionAgentMap[sid] ELSE agentId,
                        !.calls[c].pc = "listing",
                        !.calls[c].issued = Append(@, "list")]

\* line 1047 and createSession lines 909-966, up to await client.createSession
IssueCreate(st, c) ==
    [st EXCEPT !.calls[c].resolvedAgentId = ResolveAgent(st.calls[c].agentId),
               !.calls[c].pc = "creating",
               !.calls[c].issued = Append(@, "create")]

\* getOrCreateSession with the fault of creating a listed session without
\* trying to resume it
ListedCreates(st, c) ==
    IssueCreate([st EXCEPT !.calls[c].list =
                    IF st.calls[c].sessionId \in st.runtime.listed
                    THEN "listed" ELSE "unlisted"], c)

\* await client.listSessions() resolved: lines 1014-1015
OnListed(st, c) ==
    IF st.calls[c].sessionId \in st.runtime.listed
    THEN [st EXCEPT !.calls[c].list = "listed",
                    !.calls[c].pc = "resuming",
                    !.calls[c].issued = Append(@, "resume")]
    ELSE IssueCreate([st EXCEPT !.calls[c].list = "unlisted"], c)

\* await client.listSessions() rejected: catch at 1043, then line 1047
OnListFailed(st, c) ==
    IssueCreate([st EXCEPT !.calls[c].list = "threw"], c)

\* await client.resumeSession() resolved: lines 1038-1041
OnResumed(st, c) ==
    LET s1 == SessionResumed(st, st.calls[c].sessionId, st.calls[c].existingAgentId)
    IN  Returned([s1 EXCEPT !.calls[c].resume = "ok"], c, Len(s1.runtime.objects))

\* getOrCreateSession with the fault of letting the error of resumeSession
\* escape
ResumeErrorEscapes(st, c) ==
    Threw([st EXCEPT !.calls[c].resume = "threw"], c)

\* await client.resumeSession() rejected: catch at 1043, then line 1047
OnResumeFailed(st, c) ==
    IssueCreate([st EXCEPT !.calls[c].resume = "threw"], c)

\* await client.createSession() resolved: lines 987-993
OnCreated(st, c) ==
    LET s1 == SessionCreated(st, st.calls[c].sessionId, st.calls[c].agentId)
    IN  Returned(s1, c, Len(s1.runtime.objects))

\* deleteSession lines 1100-1103: the purge, up to await client.deleteSession
Purge(st, c) ==
    LET sid == st.calls[c].sessionId IN
    [st EXCEPT !.cache = MapDelete(@, sid),
               !.sessionAgentMap = MapDelete(@, sid),
               !.calls[c].pc = "deleting",
               !.calls[c].issued = Append(@, "delete")]

\* deleteSession lines 1088-1093, up to await session.destroy() if there is
\* a handle
BeginDelete(st, c) ==
    LET s1 == Called(st, c, "delete", NoAgent)
        sid == s1.calls[c].sessionId
    IN  IF sid \in DOMAIN st.activeSessions
        THEN [s1 EXCEPT !.calls[c].handle = st.activeSessions[sid],
                        !.calls[c].pc = "destroying",
                        !.calls[c].issued = Append(@, "destroy")]
        ELSE Purge(s1, c)

\* deleteSession with the fault of letting the error of destroy() escape
DestroyErrorEscapes(st, c, how) ==
    IF how = "threw"
    THEN Threw([st EXCEPT !.calls[c].destroy = how], c)
    ELSE Purge([st EXCEPT !.calls[c].destroy = how,
                          !.activeSessions = MapDelete(@, st.calls[c].sessionId)], c)

\* await session.destroy() settled, resolved or rejected: lines 1094-1103
OnDestroySettled(st, c, how) ==
    Purge([st EXCEPT !.calls[c].destroy = how,
                     !.activeSessions = MapDelete(@, st.calls[c].sessionId)], c)

\* await client.deleteSession() resolved: the runtime no longer lists the id
OnRuntimeDeleted(st, c) ==
    Finished([st EXCEPT !.runtime.listed = @ \ {st.calls[c].sessionId}], c)

\* abortSession with the fault of ending the exchanges of the session itself
AbortCompletes(st, c) ==
    LET s1 == Called(st, c, "abort", NoAgent)
        sid == s1.calls[c].sessionId
    IN  IF sid \in DOMAIN st.activeSessions
        THEN [s1 EXCEPT !.calls[c].handle = st.activeSessions[sid],
                        !.calls[c].pc = "aborting",
                        !.calls[c].issued = Append(@, "abort"),
                        !.ex = [e \in DOMAIN @ |->
                                  IF @[e].sessionId = sid
                                  THEN [@[e] EXCEPT !.completed = TRUE]
                                  ELSE @[e]]]
        ELSE Finished(s1, c)

\* abortSession lines 1483-1485, up to await session.abort()
BeginAbort(st, c) ==
    LET s1 == Called(st, c, "abort", NoAgent)
        sid == s1.calls[c].sessionId
    IN  IF sid \in DOMAIN st.activeSessions
        THEN [s1 EXCEPT !.calls[c].handle = st.activeSessions[sid],
                        !.calls[c].pc = "aborting",
                        !.calls[c].issued = Append(@, "abort")]
        ELSE Finished(s1, c)

\* stopClient line 893
HandlesCleared(st) == [st EXCEPT !.activeSessions = EmptyMap]

---------------------------------------------------------------------------
(* Responders and the hooks of a session: setUserInputHandler,             *)
(* clearUserInputHandler, setPermissionHandler, clearPermissionHandler,    *)
(* onPermissionRequest, onUserInputRequest                                 *)

\* the sessions that responders are registered for
RouterSessions == {"s1", "s2"}
\* the responder functions that callers register
Handlers == {"h1", "h2"}
NoHandler == ""
Requests == {1}
NoResult == [kind |-> "none"]
NoRegistration == [op |-> "none", sessionId |-> "", handler |-> NoHandler]

\* One request of the runtime through a hook of session object session: the
\* promise the hook returned is resolved with result, or pending in the
\* responder handler that the hook has invoked.
NewRequest(q) ==
    [ kind    |-> "none",
      session |-> NoHandle,
      state   |-> "none",
      result  |-> NoResult,
      handler |-> NoHandler,
      n       |-> 0 ]

\* setUserInputHandler(sessionId, handler), lines 699-704
setUserInputHandler(st, sessionId, handler) ==
    [st EXCEPT !.userInputHandlers = MapSet(@, sessionId, handler),
               !.registration = [op |-> "setUserInputHandler",
                                 sessionId |-> sessionId, handler |-> handler]]

\* clearUserInputHandler with the fault of clearing the permission responder
\* of the session as well
ClearsBothKinds(st, sessionId) ==
    [st EXCEPT !.userInputHandlers = MapDelete(@, sessionId),
               !.permissionHandlers = MapDelete(@, sessionId),
               !.registration = [op |-> "clearUserInputHandler",
                                 sessionId |-> sessionId, handler |-> NoHandler]]

\* clearUserInputHandler(sessionId), lines 709-711
clearUserInputHandler(st, sessionId) ==
    [st EXCEPT !.userInputHandlers = MapDelete(@, sessionId),
               !.registration = [op |-> "clearUserInputHandler",
                                 sessionId |-> sessionId, handler |-> NoHandler]]

\* setPermissionHandler(sessionId, handler), lines 717-722
setPermissionHandler(st, sessionId, handler) ==
    [st EXCEPT !.permissionHandlers = MapSet(@, sessionId, handler),
               !.registration = [op |-> "setPermissionHandler",
                                 sessionId |-> sessionId, handler |-> handler]]

\* clearPermissionHandler(sessionId), lines 727-729
clearPermissionHandler(st, sessionId) ==
    [st EXCEPT !.permissionHandlers = MapDelete(@, sessionId),
               !.registration = [op |-> "clearPermissionHandler",
                                 sessionId |-> sessionId, handler |-> NoHandler]]

\* the runtime calls a hook of session object session
Requested(st, q, kind, session) ==
    [st EXCEPT !.requests[q] =
        [NewRequest(q) EXCEPT !.kind = kind, !.session = session,
                              !.n = st.requests[q].n + 1]]

\* return <a value>: the hook's promise is resolved in the turn of the call
Resolved(st, q, result) ==
    [st EXCEPT !.requests[q].state = "resolved", !.requests[q].result = result]

\* return handler(request): the responder is invoked and the hook's promise
\* follows the promise of the responder
Invoked(st, q, handler) ==
    [st EXCEPT !.requests[q].state = "pending", !.requests[q].handler = handler]

\* sessionPermissionPolicy.get(sid) || permPolicy
PolicyOf(st, sid, permPolicy) ==
    IF sid \in DOMAIN st.sessionPermissionPolicy
    THEN st.sessionPermissionPolicy[sid]
    ELSE permPolicy

Approved == [kind |-> "approved"]
DeniedByRules == [kind |-> "denied-by-rules"]
DeniedNoResponder ==
    [kind |-> "denied-no-approval-rule-and-could-not-request-from-user"]
EmptyAnswer == [answer |-> "", wasFreeform |-> TRUE]

\* the hook of a created session with the fault of waiting for a responder
\* when none is registered
CreatedWaitsForResponder(st, q, session) ==
    LET s1 == Requested(st, q, "permission", session)
        sid == st.runtime.objects[session].sessionId
        policy == PolicyOf(st, sid, st.runtime.objects[session].permPolicy)
    IN  IF policy = "auto-approve" THEN Resolved(s1, q, Approved)
        ELSE IF policy = "deny-all" THEN Resolved(s1, q, DeniedByRules)
        ELSE IF sid \in DOMAIN st.permissionHandlers
        THEN Invoked(s1, q, st.permissionHandlers[sid])
        ELSE Invoked(s1, q, NoHandler)

\* onPermissionRequest of a created session, lines 934-955
OnPermissionRequest(st, q, session) ==
    LET s1 == Requested(st, q, "permission", session)
        sid == st.runtime.objects[session].sessionId
        policy == PolicyOf(st, sid, st.runtime.objects[session].permPolicy)
    IN  IF policy = "auto-approve" THEN Resolved(s1, q, Approved)
        ELSE IF policy = "deny-all" THEN Resolved(s1, q, DeniedByRules)
        ELSE IF sid \in DOMAIN st.permissionHandlers
        THEN Invoked(s1, q, st.permissionHandlers[sid])
        ELSE Resolved(s1, q, DeniedNoResponder)

\* the hook of a resumed session with the fault of handing the request to
\* a registered responder before it looks at the policy
ResumedAsksResponderFirst(st, q, session) ==
    LET s1 == Requested(st, q, "permission", session)
        sessionId == st.runtime.objects[session].sessionId
        policy == PolicyOf(st, sessionId, st.runtime.objects[session].permPolicy)
    IN  IF sessionId \in DOMAIN st.permissionHandlers
        THEN Invoked(s1, q, st.permissionHandlers[sessionId])
        ELSE IF policy = "auto-approve" THEN Resolved(s1, q, Approved)
        ELSE IF policy = "deny-all" THEN Resolved(s1, q, DeniedByRules)
        ELSE Resolved(s1, q, DeniedNoResponder)

\* onPermissionRequest of a resumed session, lines 1022-1029
OnPermissionRequestResumed(st, q, session) ==
    LET s1 == Requested(st, q, "permission", session)
        sessionId == st.runtime.objects[session].sessionId
        policy == PolicyOf(st, sessionId, st.runtime.objects[session].permPolicy)
    IN  IF policy = "auto-approve" THEN Resolved(s1, q, Approved)
        ELSE IF policy = "deny-all" THEN Resolved(s1, q, DeniedByRules)
        ELSE IF sessionId \in DOMAIN st.permissionHandlers
        THEN Invoked(s1, q, st.permissionHandlers[sessionId])
        ELSE Resolved(s1, q, DeniedNoResponder)

\* the hook of a created session with the fault of answering for the user
\* when the policy denies everything
UserInputDeniedByPolicy(st, q, session) ==
    LET s1 == Requested(st, q, "userInput", session)
        sid == st.runtime.objects[session].sessionId
        policy == PolicyOf(st, sid, st.runtime.objects[session].permPolicy)
    IN  IF policy # "deny-all" /\ sid \in DOMAIN st.userInputHandlers
        THEN Invoked(s1, q, st.userInputHandlers[sid])
        ELSE Resolved(s1, q, EmptyAnswer)

\* onUserInputRequest of a created session, lines 978-984
OnUserInputRequest(st, q, session) ==
    LET s1 == Requested(st, q, "userInput", session)
        sid == st.runtime.objects[session].sessionId
    IN  IF sid \in DOMAIN st.userInputHandlers
        THEN Invoked(s1, q, st.userInputHandlers[sid])
        ELSE Resolved(s1, q, EmptyAnswer)

\* onUserInputRequest of a resumed session, lines 1030-1036
OnUserInputRequestResumed(st, q, session) ==
    LET s1 == Requested(st, q, "userInput", session)
        sessionId == st.runtime.objects[session].sessionId
    IN  IF sessionId \in DOMAIN st.userInputHandlers
        THEN Invoked(s1, q, st.userInputHandlers[sessionId])
        ELSE Resolved(s1, q, EmptyAnswer)

\* the hooks that session object session carries
PermissionHook(st, q, session) ==
    IF st.runtime.objects[session].hook = "create"
    THEN OnPermissionRequest(st, q, session)
    ELSE OnPermissionRequestResumed(st, q, session)

UserInputHook(st, q, session) ==
    IF st.runtime.objects[session].hook = "create"
    THEN OnUserInputRequest(st, q, session)
    ELSE OnUserInputRequestResumed(st, q, session)

\* what a responder can answer
PermissionAnswers == {Approved, [kind |-> "denied-interactively-by-user"]}
UserInputAnswers ==
    {[answer |-> a, wasFreeform |-> f] : a \in {"yes"}, f \in BOOLEAN}

---------------------------------------------------------------------------
(* The exchange: locals of sendMessage *)

NewExchange(e) ==
    [ sessionId        |-> sessionIdOf(e),
      prompt           |-> promptOf(e),
      pc               |-> "idle",
      fullContent      |-> "",
      hasDelta         |-> FALSE,
      completed        |-> FALSE,
      pendingToolCalls |-> 0,
      toolNameByCallId |-> [id \in ToolCallIds |-> NoName],
      cleanupCalled    |-> FALSE,
      listening        |-> FALSE,
      unsubscribed     |-> 0,
      timeoutHandle    |-> "null",
      checkComplete    |-> FALSE,
      completionPromise |-> "none",
      cleanupTimers    |-> 0,
      fallbacks        |-> <<>>,
      deltaOut         |-> "",
      nDelta           |-> 0,
      nReasoning       |-> 0,
      toolOut          |-> <<>>,
      terminal         |-> <<>>,
      \* the send-message handler of the server around this call: "none"
      \* when sendMessage was called directly, else "awaiting" or "done";
      \* "awaitingSync" while the send-message-sync handler awaits
      transport        |-> "none",
      \* what the send-message-sync handler has emitted to the client
      emitted          |-> <<>>,
      \* history of the run, read by the properties only
      nEvents          |-> 0,
      lastEvent        |-> [kind |-> "none"],
      streamed         |-> <<>>,
      timeoutSeen      |-> [fired |-> FALSE] ]

\* The caller's callbacks, recorded as the caller observes them.
CallOnDelta(st, e, text) ==
    [st EXCEPT !.ex[e].deltaOut = @ \o text, !.ex[e].nDelta = @ + 1]

\* det: had detachment of the listeners been scheduled or run when the
\* callback was invoked
CallOnComplete(st, e, content) ==
    [st EXCEPT !.ex[e].terminal =
        Append(@, [kind |-> "complete", val |-> content,
                   det |-> st.ex[e].cleanupCalled \/ st.ex[e].cleanupTimers > 0])]

CallOnError(st, e, message) ==
    [st EXCEPT !.ex[e].terminal =
        Append(@, [kind |-> "error", val |-> message,
                   det |-> st.ex[e].cleanupCalled \/ st.ex[e].cleanupTimers > 0])]

\* cleanup with the fault of no cleanupCalled latch and of keeping the
\* list of unsubscribers
CleanupUnlatched(st, e) ==
    [st EXCEPT !.ex[e].cleanupCalled = TRUE,
               !.ex[e].timeoutHandle = "null",
               !.ex[e].unsubscribed =
                   IF st.ex[e].completionPromise # "none" THEN @ + 1 ELSE @,
               !.ex[e].listening = FALSE]

\* unsubscribers.forEach(unsub) runs over the subscriptions registered so
\* far (all of them once listening is set) and the list is then emptied
Cleanup(st, e) ==
    IF st.ex[e].cleanupCalled THEN st
    ELSE [st EXCEPT !.ex[e].cleanupCalled = TRUE,
                    !.ex[e].timeoutHandle = "null",
                    !.ex[e].unsubscribed = IF st.ex[e].listening THEN @ + 1 ELSE @,
                    !.ex[e].listening = FALSE]

\* Finalize with the fault of a missing latch
FinalizeNoLatch(st, e, content) ==
    LET s1 == [st EXCEPT !.ex[e].completed = TRUE]
        s2 == IF ~IsBlank(content)
              THEN [s1 EXCEPT !.cache =
                       AddMessageToCache(@, st.ex[e].sessionId, "assistant", content)]
              ELSE s1
        s3 == CallOnComplete(s2, e, content)
    IN  [s3 EXCEPT !.ex[e].cleanupTimers = @ + 1]

\* Finalize with the fault of never queueing the cleanup
FinalizeNoCleanup(st, e, content) ==
    IF st.ex[e].completed THEN st
    ELSE LET s1 == [st EXCEPT !.ex[e].completed = TRUE]
             s2 == IF ~IsBlank(content)
                   THEN [s1 EXCEPT !.cache =
                            AddMessageToCache(@, st.ex[e].sessionId, "assistant", content)]
                   ELSE s1
         IN  CallOnComplete(s2, e, content)

\* Finalize with the fault of detaching the listeners at once
FinalizeDetachesNow(st, e, content) ==
    IF st.ex[e].completed THEN st
    ELSE LET s1 == [st EXCEPT !.ex[e].completed = TRUE]
             s2 == IF ~IsBlank(content)
                   THEN [s1 EXCEPT !.cache =
                            AddMessageToCache(@, st.ex[e].sessionId, "assistant", content)]
                   ELSE s1
         IN  Cleanup(CallOnComplete(s2, e, content), e)

\* Finalize with the fault of not recording the assistant turn
FinalizeSkipsCache(st, e, content) ==
    IF st.ex[e].completed THEN st
    ELSE LET s1 == [st EXCEPT !.ex[e].completed = TRUE]
             s3 == CallOnComplete(s1, e, content)
         IN  [s3 EXCEPT !.ex[e].cleanupTimers = @ + 1]

Finalize(st, e, content) ==
    IF st.ex[e].completed THEN st
    ELSE LET s1 == [st EXCEPT !.ex[e].completed = TRUE]
             s2 == IF ~IsBlank(content)
                   THEN [s1 EXCEPT !.cache =
                            AddMessageToCache(@, st.ex[e].sessionId, "assistant", content)]
                   ELSE s1
             s3 == CallOnComplete(s2, e, content)
         IN  [s3 EXCEPT !.ex[e].cleanupTimers = @ + 1]

\* streamFallback up to its first await: the first chunk is emitted
\* synchronously, the coroutine then sleeps with its index i.
StreamFallback(st, e, content) ==
    LET s1 == IF 0 < Len(content) THEN CallOnDelta(st, e, Slice(content, 0)) ELSE st
    IN  [s1 EXCEPT !.ex[e].fallbacks = Append(@, [content |-> content, i |-> 0]),
                   !.ex[e].streamed =
                      Append(@, [content |-> content, at |-> st.ex[e].nDelta])]

---------------------------------------------------------------------------
(* Event listeners registered by sendMessage.  Each takes the state before *)
(* the event is dispatched and yields the state after the listener ran.    *)

Received(st, e, evt) ==
    [st EXCEPT !.ex[e].nEvents = @ + 1, !.ex[e].lastEvent = evt]

OnMessageDelta(st, e, deltaContent) ==
    LET s1 == IF Len(deltaContent) > 0
              THEN [st EXCEPT !.ex[e].hasDelta = TRUE] ELSE st
        s2 == [s1 EXCEPT !.ex[e].fullContent = @ \o deltaContent]
    IN  CallOnDelta(s2, e, deltaContent)

OnReasoningDelta(st, e, deltaContent) ==
    IF Len(deltaContent) > 0
    THEN [st EXCEPT !.ex[e].nReasoning = @ + 1]
    ELSE st

OnToolStart(st, e, id, name) ==
    [st EXCEPT !.ex[e].pendingToolCalls = @ + 1,
               !.ex[e].toolNameByCallId[id] = name,
               !.ex[e].toolOut = Append(@, <<"call", name, id>>)]

\* the name lookup with the fault of never consulting toolNameByCallId
ToolNameIsCallId(x, id) == id

\* toolNameByCallId.get(toolCallId) || toolCallId
ToolNameOf(x, id) ==
    IF x.toolNameByCallId[id] # NoName THEN x.toolNameByCallId[id] ELSE id

\* the tool-complete listener with the fault of no floor at zero
OnToolCompleteNoFloor(st, e, id) ==
    [st EXCEPT !.ex[e].pendingToolCalls = @ - 1,
               !.ex[e].toolOut = Append(@, <<"result", ToolNameOf(st.ex[e], id), id>>)]

OnToolComplete(st, e, id) ==
    [st EXCEPT !.ex[e].pendingToolCalls = IF @ - 1 > 0 THEN @ - 1 ELSE 0,
               !.ex[e].toolOut = Append(@, <<"result", ToolNameOf(st.ex[e], id), id>>)]

OnToolError(st, e, id) ==
    [st EXCEPT !.ex[e].pendingToolCalls = IF @ - 1 > 0 THEN @ - 1 ELSE 0,
               !.ex[e].toolOut = Append(@, <<"error", ToolNameOf(st.ex[e], id), id>>)]

\* lines 1311-1321: the message listener once no guard has returned
CompleteFromMessage(st, e, content) ==
    LET x == st.ex[e] IN
    IF ~x.hasDelta /\ Len(content) > 0
    THEN StreamFallback([st EXCEPT !.ex[e].fullContent = content], e, content)
    ELSE LET s1 == IF Len(content) > 0 /\ Len(x.fullContent) = 0
                   THEN [st EXCEPT !.ex[e].fullContent = content]
                   ELSE st
             full == s1.ex[e].fullContent
         IN  IF Len(content) > 0 \/ Len(full) > 0
             THEN Finalize(s1, e, IF full # "" THEN full ELSE content)
             ELSE s1

\* lines 1304-1309: the message listener while tool calls are pending
CaptureWhilePending(st, e, content) ==
    IF Len(content) > 0 /\ Len(st.ex[e].fullContent) = 0
    THEN [st EXCEPT !.ex[e].fullContent = content]
    ELSE st

\* the message listener with the fault of no tool-request guard
MessageNoToolRequestGuard(st, e, content, hasToolRequests) ==
    IF st.ex[e].pendingToolCalls > 0
    THEN CaptureWhilePending(st, e, content)
    ELSE CompleteFromMessage(st, e, content)

\* the message listener with the fault of no pending-tool-call guard
MessageNoPendingGuard(st, e, content, hasToolRequests) ==
    IF hasToolRequests /\ Len(content) = 0 THEN st
    ELSE CompleteFromMessage(st, e, content)

OnAssistantMessage(st, e, content, hasToolRequests) ==
    IF hasToolRequests /\ Len(content) = 0 THEN st
    ELSE IF st.ex[e].pendingToolCalls > 0
    THEN CaptureWhilePending(st, e, content)
    ELSE CompleteFromMessage(st, e, content)

OnSessionError(st, e, message) ==
    Cleanup(CallOnError(st, e, IF message # "" THEN message ELSE UnknownError), e)

\* the idle listener with the fault of not looking at pending tool calls
IdleIgnoresPending(st, e) ==
    IF ~st.ex[e].completed
    THEN Finalize(st, e, st.ex[e].fullContent)
    ELSE st

OnSessionIdle(st, e) ==
    IF ~st.ex[e].completed /\ st.ex[e].pendingToolCalls = 0
    THEN Finalize(st, e, st.ex[e].fullContent)
    ELSE st

---------------------------------------------------------------------------
(* The body of sendMessage around its awaits *)

\* catch (error) { cleanup(); onError(error) } and the function returns
Catch(st, e, message) ==
    [CallOnError(Cleanup(st, e), e, message) EXCEPT !.ex[e].pc = "returned"]

\* resolve(): the first settlement of completionPromise wins; a sendMessage
\* that is awaiting it continues (and returns) in the same turn.
Resolve(st, e) ==
    IF st.ex[e].completionPromise # "pending" THEN st
    ELSE [st EXCEPT !.ex[e].completionPromise = "resolved",
                    !.ex[e].pc = IF @ = "waiting" THEN "returned" ELSE @]

\* reject(new Error(timeout)): an awaiting sendMessage enters its catch; a
\* rejection that nothing awaits yet is kept for the await after session.send
\* (what Node does with the unhandled rejection meanwhile is left out).
Reject(st, e) ==
    IF st.ex[e].completionPromise # "pending" THEN st
    ELSE LET s1 == [st EXCEPT !.ex[e].completionPromise = "rejected"]
         IN  IF st.ex[e].pc = "waiting" THEN Catch(s1, e, TimeoutError) ELSE s1

\* getOrCreateSession resolved: the handle was in activeSessions, or
\* resumeSession or createSession has put it there
HandleCached(st, sid) ==
    IF sid \in DOMAIN st.activeSessions THEN st
    ELSE SessionCreated(st, sid, NoAgent)

\* lines 1219-1365: after getOrCreateSession resolved, up to await session.send
Attach(st, e) ==
    [st EXCEPT !.cache = AddMessageToCache(@, st.ex[e].sessionId, "user", st.ex[e].prompt),
               !.ex[e].listening = TRUE,
               !.ex[e].checkComplete = TRUE,
               !.ex[e].timeoutHandle = "armed",
               !.ex[e].completionPromise = "pending",
               !.ex[e].pc = "sending"]

\* await completionPromise, reached when session.send has resolved
AwaitCompletion(st, e) ==
    CASE st.ex[e].completionPromise = "resolved" -> [st EXCEPT !.ex[e].pc = "returned"]
      [] st.ex[e].completionPromise = "rejected" -> Catch(st, e, TimeoutError)
      [] OTHER -> [st EXCEPT !.ex[e].pc = "waiting"]

\* the setInterval callback checkComplete
CheckComplete(st, e) ==
    IF st.ex[e].completed
    THEN Resolve([st EXCEPT !.ex[e].checkComplete = FALSE], e)
    ELSE st

\* the record the properties keep of the timer firing
SeenTimeout(x) ==
    [fired |-> TRUE, completed |-> x.completed, buffer |-> x.fullContent,
     pc |-> x.pc, at |-> Len(x.terminal)]

\* the timeout callback with the fault of cleaning up without reject()
OnTimeoutNoReject(st, e) ==
    LET s1 == [st EXCEPT !.ex[e].checkComplete = FALSE,
                         !.ex[e].timeoutHandle = "fired",
                         !.ex[e].timeoutSeen = SeenTimeout(st.ex[e])]
    IN  IF ~s1.ex[e].completed
        THEN IF Len(s1.ex[e].fullContent) > 0
             THEN Resolve(Finalize(s1, e, s1.ex[e].fullContent), e)
             ELSE Cleanup(s1, e)
        ELSE Resolve(s1, e)

\* the timeout callback with the fault of discarding the partial buffer
OnTimeoutDropsPartial(st, e) ==
    LET s1 == [st EXCEPT !.ex[e].checkComplete = FALSE,
                         !.ex[e].timeoutHandle = "fired",
                         !.ex[e].timeoutSeen = SeenTimeout(st.ex[e])]
    IN  IF ~s1.ex[e].completed
        THEN Reject(Cleanup(s1, e), e)
        ELSE Resolve(s1, e)

\* the timeout callback with the fault of not looking at completed
OnTimeoutIgnoresCompleted(st, e) ==
    LET s1 == [st EXCEPT !.ex[e].checkComplete = FALSE,
                         !.ex[e].timeoutHandle = "fired",
                         !.ex[e].timeoutSeen = SeenTimeout(st.ex[e])]
    IN  IF Len(s1.ex[e].fullContent) > 0
        THEN Resolve(Finalize(s1, e, s1.ex[e].fullContent), e)
        ELSE Reject(Cleanup(s1, e), e)

\* the setTimeout callback armed with DEFAULT_MESSAGE_TIMEOUT
OnTimeout(st, e) ==
    LET x == st.ex[e]
        s1 == [st EXCEPT !.ex[e].checkComplete = FALSE,
                         !.ex[e].timeoutHandle = "fired",
                         !.ex[e].timeoutSeen = SeenTimeout(x)]
    IN  IF ~s1.ex[e].completed
        THEN IF Len(s1.ex[e].fullContent) > 0
             THEN Resolve(Finalize(s1, e, s1.ex[e].fullContent), e)
             ELSE Reject(Cleanup(s1, e), e)
        ELSE Resolve(s1, e)

\* one wake-up of the oldest sleeping streamFallback coroutine: the next
\* chunk, or the end of the loop and then(() => finalize(fullContent))
FallbackWake(st, e) ==
    LET f == Head(st.ex[e].fallbacks)
        i == f.i + chunkSize
        rest == Tail(st.ex[e].fallbacks)
    IN  IF i < Len(f.content)
        THEN CallOnDelta([st EXCEPT !.ex[e].fallbacks =
                             Append(rest, [f EXCEPT !.i = i])], e, Slice(f.content, i))
        ELSE LET s1 == [st EXCEPT !.ex[e].fallbacks = rest]
             IN  Finalize(s1, e, s1.ex[e].fullContent)

\* the setTimeout(() => cleanup(), 100) queued by finalize
CleanupTimerFired(st, e) ==
    Cleanup([st EXCEPT !.ex[e].cleanupTimers = @ - 1], e)

---------------------------------------------------------------------------
(* getSessionMessages *)

Reads == {1}
readSessionOf(r) == "s1"

\* One call of getSessionMessages: where it stands, and for the properties
\* the branch it took (path), the events session.getMessages() resolved
\* with (log) and the list it returned (result).
NewRead(r) ==
    [ sessionId |-> readSessionOf(r),
      pc        |-> "idle",
      calls     |-> 0,
      path      |-> "none",
      log       |-> <<>>,
      result    |-> <<>>,
      \* history, read by the properties only: some call has stored a list
      seeded    |-> FALSE ]

\* a || b on strings
OrElse(a, b) == IF a # "" THEN a ELSE b

\* an event of the runtime's log; a field the event lacks is ""
Event(type, prompt, content, text, message) ==
    [type |-> type,
     data |-> [prompt |-> prompt, content |-> content, text |-> text,
               message |-> message]]

IsChatEvent(ev) == ev.type \in {"user.message", "assistant.message"}

ToMessage(ev) ==
    IF ev.type = "user.message"
    THEN [role |-> "user",
          content |-> OrElse(ev.data.prompt, OrElse(ev.data.content, ev.data.text))]
    ELSE [role |-> "assistant",
          content |-> OrElse(ev.data.content, OrElse(ev.data.text, ev.data.message))]

HasText(m) == ~IsBlank(m.content)

\* events.filter(...).map(...).filter(...)
Reconstruct(events) ==
    LET chat == SelectSeq(events, IsChatEvent)
        mapped == [i \in 1..Len(chat) |-> ToMessage(chat[i])]
    IN  SelectSeq(mapped, HasText)

\* lines 1113-1122: the call up to its return or to await session.getMessages()
BeginGetSessionMessages(st, r) ==
    LET sid == st.reads[r].sessionId
        s1 == [st EXCEPT !.reads[r].calls = @ + 1, !.reads[r].log = <<>>]
    IN  IF sid \in DOMAIN st.cache
        THEN [s1 EXCEPT !.reads[r].pc = "returned",
                        !.reads[r].path = "cached",
                        !.reads[r].result = st.cache[sid]]
        ELSE IF sid \notin DOMAIN st.activeSessions
        THEN [s1 EXCEPT !.reads[r].pc = "returned",
                        !.reads[r].path = "nohandle",
                        !.reads[r].result = <<>>]
        ELSE [s1 EXCEPT !.reads[r].pc = "awaiting",
                        !.reads[r].path = "none",
                        !.reads[r].result = <<>>]

\* the seeding with the fault of storing an empty reconstruction too
SeedsEmptyToo(st, r, events) ==
    LET sid == st.reads[r].sessionId
        messages == Reconstruct(events)
        s1 == [st EXCEPT !.cache =
                  [s \in (DOMAIN st.cache) \cup {sid} |->
                      IF s = sid THEN messages ELSE st.cache[s]],
                         !.reads[r].seeded = TRUE]
    IN  [s1 EXCEPT !.reads[r].pc = "returned",
                   !.reads[r].path = "log",
                   !.reads[r].log = events,
                   !.reads[r].result = messages]

\* lines 1126-1151: session.getMessages() resolved with events
SeedFromLog(st, r, events) ==
    LET sid == st.reads[r].sessionId
        messages == Reconstruct(events)
        s1 == IF Len(messages) > 0
              THEN [st EXCEPT !.cache =
                       [s \in (DOMAIN st.cache) \cup {sid} |->
                           IF s = sid THEN messages ELSE st.cache[s]],
                              !.reads[r].seeded = TRUE]
              ELSE st
    IN  [s1 EXCEPT !.reads[r].pc = "returned",
                   !.reads[r].path = "log",
                   !.reads[r].log = events,
                   !.reads[r].result = messages]

\* lines 1152-1154: session.getMessages() rejected
GetMessagesFailed(st, r) ==
    [st EXCEPT !.reads[r].pc = "returned",
               !.reads[r].path = "failed",
               !.reads[r].result = <<>>]

---------------------------------------------------------------------------
(* Actions *)

Step(st) ==
    /\ ex' = st.ex
    /\ cache' = st.cache
    /\ activeSessions' = st.activeSessions
    /\ reads' = st.reads
    /\ sessionAgentMap' = st.sessionAgentMap
    /\ sessionPermissionPolicy' = st.sessionPermissionPolicy
    /\ userInputHandlers' = st.userInputHandlers
    /\ permissionHandlers' = st.permissionHandlers
    /\ runtime' = st.runtime
    /\ calls' = st.calls
    /\ requests' = st.requests
    /\ registration' = st.registration

\* the process has just started: nothing is registered, the runtime lists
\* no session
Started ==
    [ex |-> [e \in Exchanges |-> NewExchange(e)],
     cache |-> [s \in {} |-> <<>>],
     activeSessions |-> EmptyMap,
     reads |-> [r \in Reads |-> NewRead(r)],
     sessionAgentMap |-> EmptyMap,
     sessionPermissionPolicy |-> EmptyMap,
     userInputHandlers |-> EmptyMap,
     permissionHandlers |-> EmptyMap,
     runtime |-> [listed |-> {}, objects |-> <<>>],
     calls |-> [c \in Calls |-> NewCall(c)],
     requests |-> [q \in Requests |-> NewRequest(q)],
     registration |-> NoRegistration]

\* the variables have the values of state record st
StartsAs(st) ==
    /\ ex = st.ex
    /\ cache = st.cache
    /\ activeSessions = st.activeSessions
    /\ reads = st.reads
    /\ sessionAgentMap = st.sessionAgentMap
    /\ sessionPermissionPolicy = st.sessionPermissionPolicy
    /\ userInputHandlers = st.userInputHandlers
    /\ permissionHandlers = st.permissionHandlers
    /\ runtime = st.runtime
    /\ calls = st.calls
    /\ requests = st.requests
    /\ registration = st.registration

Init == StartsAs(Started)

\* sendMessage(options) is called: it awaits getOrCreateSession
SendMessage(e) ==
    /\ ex[e].pc = "idle"
    /\ Step([State EXCEPT !.ex[e].pc = "resolving"])

SessionResolved(e) ==
    /\ ex[e].pc = "resolving"
    /\ Step(Attach(HandleCached(State, ex[e].sessionId), e))

SessionFailed(e) ==
    /\ ex[e].pc = "resolving"
    /\ Step(Catch(State, e, SessionError))

SendResolved(e) ==
    /\ ex[e].pc = "sending"
    /\ Step(AwaitCompletion(State, e))

SendRejected(e) ==
    /\ ex[e].pc = "sending"
    /\ Step(Catch(State, e, SendError))

CanReceive(e, max) == ex[e].listening /\ ex[e].nEvents < max

EvMessageDelta(e, max) ==
    /\ CanReceive(e, max)
    /\ \E d \in DeltaTexts :
         Step(OnMessageDelta(Received(State, e, [kind |-> "delta", text |-> d]), e, d))

EvReasoningDelta(e, max) ==
    /\ CanReceive(e, max)
    /\ \E d \in DeltaTexts :
         Step(OnReasoningDelta(Received(State, e, [kind |-> "reasoning", text |-> d]), e, d))

EvToolStart(e, max) ==
    /\ CanReceive(e, max)
    /\ \E id \in ToolCallIds, name \in ToolNames :
         Step(OnToolStart(Received(State, e, [kind |-> "tool_start", id |-> id]), e, id, name))

EvToolComplete(e, max) ==
    /\ CanReceive(e, max)
    /\ \E id \in ToolCallIds :
         Step(OnToolComplete(Received(State, e, [kind |-> "tool_complete", id |-> id]), e, id))

EvToolError(e, max) ==
    /\ CanReceive(e, max)
    /\ \E id \in ToolCallIds :
         Step(OnToolError(Received(State, e, [kind |-> "tool_error", id |-> id]), e, id))

EvAssistantMessage(e, max) ==
    /\ CanReceive(e, max)
    /\ \E c \in MessageContents, tr \in BOOLEAN :
         Step(OnAssistantMessage(
                Received(State, e, [kind |-> "message", content |-> c, toolRequests |-> tr]),
                e, c, tr))

EvSessionError(e, max) ==
    /\ CanReceive(e, max)
    /\ \E m \in ErrorMessages :
         Step(OnSessionError(Received(State, e, [kind |-> "session_error", message |-> m]), e, m))

EvSessionIdle(e, max) ==
    /\ CanReceive(e, max)
    /\ Step(OnSessionIdle(Received(State, e, [kind |-> "idle"]), e))

\* a tick of the polling interval that finds completed set
CheckCompleteTick(e) ==
    /\ ex[e].checkComplete
    /\ ex[e].completed
    /\ Step(CheckComplete(State, e))

TimeoutFired(e) ==
    /\ ex[e].timeoutHandle = "armed"
    /\ Step(OnTimeout(State, e))

FallbackTick(e) ==
    /\ ex[e].fallbacks # <<>>
    /\ Step(FallbackWake(State, e))

CleanupTick(e) ==
    /\ ex[e].cleanupTimers > 0
    /\ Step(CleanupTimerFired(State, e))

\* what happens to a sendMessage call once it has been made
ExchangeSteps(e, max) ==
        \/ SessionResolved(e)
        \/ SessionFailed(e)
        \/ SendResolved(e)
        \/ SendRejected(e)
        \/ EvMessageDelta(e, max)
        \/ EvReasoningDelta(e, max)
        \/ EvToolStart(e, max)
        \/ EvToolComplete(e, max)
        \/ EvToolError(e, max)
        \/ EvAssistantMessage(e, max)
        \/ EvSessionError(e, max)
        \/ EvSessionIdle(e, max)
        \/ CheckCompleteTick(e)
        \/ TimeoutFired(e)
        \/ FallbackTick(e)
        \/ CleanupTick(e)

NextWith(max) ==
    \E e \in Exchanges :
        \/ SendMessage(e)
        \/ ExchangeSteps(e, max)

Next == NextWith(MaxEvents)

Spec == Init /\ [][Next]_vars

FairNext == NextWith(MaxFairEvents)

\* Every await of sendMessage settles and every armed timer of the event
\* loop fires unless it is cleared first; the runtime owes no event.
Fairness ==
    \A e \in Exchanges :
        /\ WF_vars(SessionResolved(e) \/ SessionFailed(e))
        /\ WF_vars(SendResolved(e) \/ SendRejected(e))
        /\ WF_vars(TimeoutFired(e))
        /\ WF_vars(CheckCompleteTick(e))
        /\ WF_vars(FallbackTick(e))
        /\ WF_vars(CleanupTick(e))

FairSpec == Init /\ [][FairNext]_vars /\ Fairness

---------------------------------------------------------------------------
(* The history cache under getSessionMessages and long histories *)

Digits == "0123456789"
RECURSIVE NumStr(_)
NumStr(n) ==
    IF n < Len(Digits) THEN SubSeq(Digits, n + 1, n + 1)
    ELSE NumStr(n \div Len(Digits)) \o NumStr(n % Len(Digits))

\* the content of the i-th turn of a session that has been in use
TurnText(i) == "turn " \o NumStr(i)
TurnRole(i) == IF i % 2 = 1 THEN "user" ELSE "assistant"

\* the cache of a session after k appended turns
History(k) == [i \in 1..k |-> [role |-> TurnRole(i), content |-> TurnText(i)]]

\* no cache at all, or a session whose cache is at or just below the bound
InitialCaches ==
    {[s \in {} |-> <<>>]}
        \cup {[s \in SessionIds |-> History(MAX_MESSAGES_PER_SESSION - k)] : k \in 0..Slack}

\* what session.getMessages() may resolve with
NoChatLog == <<Event("session.start", "", "", "", "")>>
BlankLog == <<Event("assistant.message", "", Blank, "", "")>>
MixedLog ==
    << Event("user.message", "", "q", "", ""),
       Event("tool.execution_start", "", "", "", ""),
       Event("assistant.message", "", "", "", "a"),
       Event("assistant.message", "", Blank, "", ""),
       Event("user.message", "", "", "", "") >>
LongLog ==
    [i \in 1..(MAX_MESSAGES_PER_SESSION + 1) |->
        IF i % 2 = 1 THEN Event("user.message", TurnText(i), "", "", "")
        ELSE Event("assistant.message", "", TurnText(i), "", "")]
RuntimeLogs == {<<>>, NoChatLog, BlankLog, MixedLog, LongLog}

GetSessionMessages(r) ==
    /\ reads[r].pc # "awaiting"
    /\ reads[r].calls < MaxReads
    /\ Step(BeginGetSessionMessages(State, r))

GetMessagesResolved(r) ==
    /\ reads[r].pc = "awaiting"
    /\ \E events \in RuntimeLogs : Step(SeedFromLog(State, r, events))

GetMessagesRejected(r) ==
    /\ reads[r].pc = "awaiting"
    /\ Step(GetMessagesFailed(State, r))

\* the sessions of S have been resumed, one after the other
RECURSIVE ResumedAll(_, _)
ResumedAll(st, S) ==
    IF S = {} THEN st
    ELSE LET sid == CHOOSE sid \in S : TRUE
         IN  ResumedAll(SessionResumed(st, sid, NoAgent), S \ {sid})

\* the sessions of known have been resumed; unless all of them still have
\* their handle, stopClient has cleared the handles and the sessions of
\* active have been resumed again
Running(known, active) ==
    LET r == ResumedAll(Started, known)
    IN  IF active = known THEN r ELSE ResumedAll(HandlesCleared(r), active)

\* A server that has been running: the session may have a long history in
\* the cache, and its handle may or may not be cached (stopClient clears the
\* handles and keeps the cache; a resumed session has a handle and no cache).
CacheInit ==
    \E c \in InitialCaches, known \in SUBSET SessionIds :
        /\ DOMAIN c \subseteq known
        /\ \E active \in SUBSET known :
              StartsAs([Running(known, active) EXCEPT !.cache = c])

CacheNext ==
    \/ NextWith(MaxCacheEvents)
    \/ \E r \in Reads :
        \/ GetSessionMessages(r)
        \/ GetMessagesResolved(r)
        \/ GetMessagesRejected(r)

CacheSpec == CacheInit /\ [][CacheNext]_vars

---------------------------------------------------------------------------
(* The session registry under getOrCreateSession, deleteSession and        *)
(* abortSession calls that interleave at their awaits                      *)

\* a call slot is free for its next call
CanCall(c) == calls[c].pc \in {"idle", "returned"} /\ calls[c].n < MaxCalls

GetOrCreateSession(c) ==
    /\ CanCall(c)
    /\ \E agentId \in AgentIds : Step(BeginGetOrCreate(State, c, agentId))

ListSessionsResolved(c) ==
    /\ calls[c].pc = "listing"
    /\ Step(OnListed(State, c))

ListSessionsRejected(c) ==
    /\ calls[c].pc = "listing"
    /\ Step(OnListFailed(State, c))

ResumeSessionResolved(c) ==
    /\ calls[c].pc = "resuming"
    /\ Step(OnResumed(State, c))

ResumeSessionRejected(c) ==
    /\ calls[c].pc = "resuming"
    /\ Step(OnResumeFailed(State, c))

CreateSessionResolved(c) ==
    /\ calls[c].pc = "creating"
    /\ Step(OnCreated(State, c))

\* await client.createSession() rejected: the error leaves getOrCreateSession
CreateSessionRejected(c) ==
    /\ calls[c].pc = "creating"
    /\ Step(Threw(State, c))

DeleteSession(c) ==
    /\ CanCall(c)
    /\ Step(BeginDelete(State, c))

DestroyResolved(c) ==
    /\ calls[c].pc = "destroying"
    /\ Step(OnDestroySettled(State, c, "ok"))

DestroyRejected(c) ==
    /\ calls[c].pc = "destroying"
    /\ Step(OnDestroySettled(State, c, "threw"))

RuntimeDeleteResolved(c) ==
    /\ calls[c].pc = "deleting"
    /\ Step(OnRuntimeDeleted(State, c))

\* await client.deleteSession() rejected: the error leaves deleteSession
RuntimeDeleteRejected(c) ==
    /\ calls[c].pc = "deleting"
    /\ Step(Threw(State, c))

AbortSession(c) ==
    /\ CanCall(c)
    /\ Step(BeginAbort(State, c))

AbortResolved(c) ==
    /\ calls[c].pc = "aborting"
    /\ Step(Finished(State, c))

\* await session.abort() rejected: the error leaves abortSession
AbortRejected(c) ==
    /\ calls[c].pc = "aborting"
    /\ Step(Threw(State, c))

\* The process has just started or has been running: the runtime may list
\* the session from an earlier run, and the session may have been resumed,
\* used and have lost its handle again.
LifecycleInit ==
    \E listed \in SUBSET SessionIds, c \in InitialCaches :
        \E known \in SUBSET listed :
            /\ DOMAIN c \subseteq known
            /\ \E active \in SUBSET known :
                  StartsAs([Running(known, active) EXCEPT !.cache = c,
                                                          !.runtime.listed = listed])

LifecycleNext ==
    \E c \in Calls :
        \/ GetOrCreateSession(c)
        \/ ListSessionsResolved(c)
        \/ ListSessionsRejected(c)
        \/ ResumeSessionResolved(c)
        \/ ResumeSessionRejected(c)
        \/ CreateSessionResolved(c)
        \/ CreateSessionRejected(c)
        \/ DeleteSession(c)
        \/ DestroyResolved(c)
        \/ DestroyRejected(c)
        \/ RuntimeDeleteResolved(c)
        \/ RuntimeDeleteRejected(c)
        \/ AbortSession(c)
        \/ AbortResolved(c)
        \/ AbortRejected(c)

LifecycleSpec == LifecycleInit /\ [][LifecycleNext]_vars

---------------------------------------------------------------------------
(* An exchange of sendMessage with abortSession calls arriving while it is *)
(* in flight                                                               *)

AbortNext ==
    \/ NextWith(MaxAbortEvents)
    \/ \E c \in Calls :
        \/ AbortSession(c)
        \/ AbortResolved(c)
        \/ AbortRejected(c)

AbortSpec == Init /\ [][AbortNext]_vars

---------------------------------------------------------------------------
(* Responders being registered and cleared while the runtime makes         *)
(* permission and user-input requests through the hooks of the sessions    *)

SetUserInputHandlerCalled(sid, h) == Step(setUserInputHandler(State, sid, h))

ClearUserInputHandlerCalled(sid) == Step(clearUserInputHandler(State, sid))

SetPermissionHandlerCalled(sid, h) == Step(setPermissionHandler(State, sid, h))

ClearPermissionHandlerCalled(sid) == Step(clearPermissionHandler(State, sid))

\* a request slot is free for its next request
CanRequest(q) == requests[q].state # "pending" /\ requests[q].n < MaxRequests

PermissionRequested(q) ==
    /\ CanRequest(q)
    /\ \E session \in 1..Len(runtime.objects) :
          Step(PermissionHook(State, q, session))

UserInputRequested(q) ==
    /\ CanRequest(q)
    /\ \E session \in 1..Len(runtime.objects) :
          Step(UserInputHook(State, q, session))

\* the promise of the responder resolves: so does the promise of the hook
ResponderAnswered(q) ==
    /\ requests[q].state = "pending"
    /\ \E result \in (IF requests[q].kind = "permission"
                      THEN PermissionAnswers ELSE UserInputAnswers) :
          Step(Resolved(State, q, result))

\* how a session came to be: not at all, created for an agent, or resumed
\* for an agent
Origins ==
    {[how |-> "none", agentId |-> NoAgent]}
        \cup [how : {"create", "resume"}, agentId : AgentIds]

Originated(st, sid, origin) ==
    CASE origin.how = "create" -> SessionCreated(st, sid, origin.agentId)
      [] origin.how = "resume" -> SessionResumed(st, sid, origin.agentId)
      [] OTHER -> st

\* The server has been running: each session has been created or resumed
\* for some agent, or does not exist.
RouterInit ==
    \E o1, o2 \in Origins :
        StartsAs(Originated(Originated(Started, "s1", o1), "s2", o2))

RouterNext ==
    \/ \E sid \in RouterSessions :
        \/ \E h \in Handlers : SetUserInputHandlerCalled(sid, h)
        \/ ClearUserInputHandlerCalled(sid)
        \/ \E h \in Handlers : SetPermissionHandlerCalled(sid, h)
        \/ ClearPermissionHandlerCalled(sid)
    \/ \E q \in Requests :
        \/ PermissionRequested(q)
        \/ UserInputRequested(q)
        \/ ResponderAnswered(q)

RouterSpec == RouterInit /\ [][RouterNext]_vars

---------------------------------------------------------------------------
(* An exchange of sendMessage with deleteSession calls for its session     *)
(* arriving while it is in flight                                          *)

DeleteNext ==
    \/ NextWith(MaxDeleteEvents)
    \/ \E c \in Calls :
        \/ DeleteSession(c)
        \/ DestroyResolved(c)
        \/ DestroyRejected(c)
        \/ RuntimeDeleteResolved(c)
        \/ RuntimeDeleteRejected(c)

DeleteSpec == Init /\ [][DeleteNext]_vars

---------------------------------------------------------------------------
(* Two sendMessage calls at once, on sessions s1 and s2 *)

Pair == {1, 2}

PairInit == StartsAs([Started EXCEPT !.ex = [e \in Pair |-> NewExchange(e)]])

PairNext ==
    \E e \in Pair :
        \/ SendMessage(e)
        \/ ExchangeSteps(e, MaxPairEvents)

PairSpec == PairInit /\ [][PairNext]_vars

---------------------------------------------------------------------------
(* The send-message handler of the server: the user-input responder is     *)
(* registered, sendMessage is awaited, and the finally block clears the    *)
(* responder when sendMessage has returned                                 *)

\* the responder that the handler registers for exchange e
handlerOf(e) == "h1"

\* server.ts lines 684-704: setUserInputHandler, then sendMessage is called
ServerSendMessage(e) ==
    /\ ex[e].pc = "idle"
    /\ Step(setUserInputHandler([State EXCEPT !.ex[e].pc = "resolving",
                                              !.ex[e].transport = "awaiting"],
                                ex[e].sessionId, handlerOf(e)))

\* server.ts lines 757-761: await sendMessage(...) has returned (sendMessage
\* catches its own errors), the finally block runs
ServerFinally(e) ==
    /\ ex[e].pc = "returned"
    /\ ex[e].transport = "awaiting"
    /\ Step(clearUserInputHandler([State EXCEPT !.ex[e].transport = "done"],
                                  ex[e].sessionId))

ServerNext ==
    \E e \in Exchanges :
        \/ ServerSendMessage(e)
        \/ ExchangeSteps(e, MaxFairEvents)
        \/ ServerFinally(e)

\* As in FairSpec every await settles and every armed timer fires; the
\* continuation of await sendMessage(...) runs once sendMessage has returned.
ServerSpec ==
    /\ Init
    /\ [][ServerNext]_vars
    /\ Fairness
    /\ \A e \in Exchanges : WF_vars(ServerFinally(e))

---------------------------------------------------------------------------
(* The send-message-sync handler of the server and sendMessageSync: the    *)
(* server emits message-start, registers the responder and awaits          *)
(* sendMessageSync, which resolves the session, attaches the three tool    *)
(* listeners and awaits session.sendAndWait. Its catch reports through     *)
(* onError and returns an empty result, so the promise the server awaits   *)
(* never rejects and the catch block of the server handler is unreachable. *)

\* socket.emit(kind, ...) of the handler for exchange e
Emit(st, e, kind) ==
    [st EXCEPT !.ex[e].emitted = Append(@, kind)]

\* sendMessageSync after getOrCreateSession resolved, up to await sendAndWait
SyncAttach(st, e) ==
    [st EXCEPT !.cache = AddMessageToCache(@, st.ex[e].sessionId, "user", st.ex[e].prompt),
               !.ex[e].listening = TRUE,
               !.ex[e].pc = "syncWaiting"]

\* the tool.execution_start listener of sendMessageSync; onToolCall emits
\* tool-call
OnSyncToolStart(st, e, id, name) ==
    [st EXCEPT !.ex[e].toolNameByCallId[id] = name,
               !.ex[e].toolOut = Append(@, <<"call", name, id>>)]

\* the tool.execution_complete and tool.execution_error listeners of
\* sendMessageSync; onToolResult emits tool-result
OnSyncToolEnd(st, e, id, kind) ==
    [st EXCEPT !.ex[e].toolOut = Append(@, <<kind, ToolNameOf(st.ex[e], id), id>>)]

\* finally of sendMessageSync: the listeners registered so far are detached
\* and the call returns its result
SyncFinally(st, e, content) ==
    [st EXCEPT !.ex[e].unsubscribed = IF st.ex[e].listening THEN @ + 1 ELSE @,
               !.ex[e].listening = FALSE,
               !.ex[e].fullContent = content,
               !.ex[e].pc = "returned"]

\* sendAndWait resolved with content
SyncReturn(st, e, content) ==
    LET s1 == IF ~IsBlank(content)
              THEN [st EXCEPT !.cache =
                       AddMessageToCache(@, st.ex[e].sessionId, "assistant", content)]
              ELSE st
    IN  SyncFinally(s1, e, content)

\* catch of sendMessageSync: onError (the server emits message-error), then
\* return { content: "", toolCalls }
SyncCatch(st, e) ==
    SyncFinally(Emit(st, e, "message-error"), e, "")

ServerSendMessageSync(e) ==
    /\ ex[e].pc = "idle"
    /\ Step(setUserInputHandler(
              Emit([State EXCEPT !.ex[e].pc = "syncResolving",
                                 !.ex[e].transport = "awaitingSync"],
                   e, "message-start"),
              ex[e].sessionId, handlerOf(e)))

SyncSessionResolved(e) ==
    /\ ex[e].pc = "syncResolving"
    /\ Step(SyncAttach(HandleCached(State, ex[e].sessionId), e))

SyncSessionFailed(e) ==
    /\ ex[e].pc = "syncResolving"
    /\ Step(SyncCatch(State, e))

SyncEvToolStart(e) ==
    /\ ex[e].pc = "syncWaiting"
    /\ CanReceive(e, MaxSyncEvents)
    /\ \E id \in ToolCallIds, name \in ToolNames :
         Step(OnSyncToolStart(Received(State, e, [kind |-> "tool_start", id |-> id]),
                              e, id, name))

SyncEvToolEnd(e) ==
    /\ ex[e].pc = "syncWaiting"
    /\ CanReceive(e, MaxSyncEvents)
    /\ \E id \in ToolCallIds, kind \in {"result", "error"} :
         Step(OnSyncToolEnd(Received(State, e, [kind |-> "tool_end", id |-> id]),
                            e, id, kind))

SendAndWaitResolved(e) ==
    /\ ex[e].pc = "syncWaiting"
    /\ \E content \in MessageContents : Step(SyncReturn(State, e, content))

\* sendAndWait rejected: its timeout elapsed, or the session failed
SendAndWaitRejected(e) ==
    /\ ex[e].pc = "syncWaiting"
    /\ Step(SyncCatch(State, e))

\* the handler continues after await sendMessageSync: message-complete is
\* emitted with the result, and the finally block clears the responder
ServerSyncReturned(e) ==
    /\ ex[e].pc = "returned"
    /\ ex[e].transport = "awaitingSync"
    /\ Step(clearUserInputHandler(
              Emit([State EXCEPT !.ex[e].transport = "done"], e, "message-complete"),
              ex[e].sessionId))

SyncNext ==
    \E e \in Exchanges :
        \/ ServerSendMessageSync(e)
        \/ SyncSessionResolved(e)
        \/ SyncSessionFailed(e)
        \/ SyncEvToolStart(e)
        \/ SyncEvToolEnd(e)
        \/ SendAndWaitResolved(e)
        \/ SendAndWaitRejected(e)
        \/ ServerSyncReturned(e)

SyncSpec == Init /\ [][SyncNext]_vars

---------------------------------------------------------------------------
(* Vocabulary of the properties *)

Indices(s) == 1..Len(s)
CompleteAt(x) == {i \in Indices(x.terminal) : x.terminal[i].kind = "complete"}
ErrorAt(x) == {i \in Indices(x.terminal) : x.terminal[i].kind = "error"}
AssistantTurns(sid) ==
    IF sid \in DOMAIN cache
    THEN {i \in Indices(cache[sid]) : cache[sid][i].role = "assistant"}
    ELSE {}
CeilDiv(n, d) == (n + d - 1) \div d

\* the step dispatches one runtime event to the listeners of e
Dispatched(e) == ex'[e].nEvents = ex[e].nEvents + 1

\* the exchange record without the history of received events
Locals(x) == [x EXCEPT !.nEvents = 0, !.lastEvent = [kind |-> "none"]]

---------------------------------------------------------------------------
(* C1: the caller receives at most one terminal signal per exchange:       *)
(* onComplete and onError are never both invoked and neither is invoked    *)
(* twice.  Fails: a session.error event in the grace window after finalize *)
(* (or a rejected send, or a fallback stream that outlives a session       *)
(* error) delivers a second terminal signal.                               *)
C1_AtMostOneTerminal ==
    \A e \in Exchanges : Len(ex[e].terminal) <= 1

C3_DetachScheduledBefore ==
    \A e \in Exchanges : \A i \in Indices(ex[e].terminal) : ex[e].terminal[i].det

(* C3 as amended: once the turn that invoked a terminal callback is over,  *)
(* detachment has been scheduled (the 100 ms timer) or has run.            *)
C3_DetachScheduledWithin ==
    \A e \in Exchanges :
        ex[e].terminal # <<>> => ex[e].cleanupCalled \/ ex[e].cleanupTimers > 0

\* onComplete was invoked by finalize before the cleanup timer was queued
C3_Witness ==
    \E e \in Exchanges :
        /\ Len(ex[e].terminal) = 1
        /\ ex[e].terminal[1].kind = "complete"
        /\ ~ex[e].terminal[1].det
        /\ ex[e].cleanupTimers = 1
        /\ ~ex[e].cleanupCalled

(* C4: after a session-error event the exchange has failed: onError got    *)
(* the runtime's message, no onComplete follows it, and unless the         *)
(* exchange had completed before, no assistant turn is cached.  Fails: a   *)
(* fallback stream that is still running finalizes afterwards.             *)
C4_SessionErrorIsFinal ==
    \A e \in Exchanges :
        ex[e].lastEvent.kind = "session_error" =>
            \E i \in ErrorAt(ex[e]) :
                /\ ex[e].terminal[i].val =
                      (IF ex[e].lastEvent.message # ""
                       THEN ex[e].lastEvent.message ELSE UnknownError)
                /\ \A j \in CompleteAt(ex[e]) : j < i
                /\ (CompleteAt(ex[e]) = {}) => AssistantTurns(ex[e].sessionId) = {}

(* C5: once a message event has started fallback streaming of content c,   *)
(* onComplete fires at most once, with c, and when it has fired the caller *)
(* has received exactly ceil(len(c)/24) chunks through onDelta, which      *)
(* concatenate to c.  Fails: session.idle (or the timeout, or a second     *)
(* message) during the chunk emission completes the exchange before the    *)
(* chunks are out, or adds chunks.                                         *)
C5_FallbackThenComplete ==
    \A e \in Exchanges :
        ex[e].streamed # <<>> =>
            LET first == ex[e].streamed[1] IN
            /\ Cardinality(CompleteAt(ex[e])) <= 1
            /\ CompleteAt(ex[e]) # {} =>
                  /\ \A i \in CompleteAt(ex[e]) : ex[e].terminal[i].val = first.content
                  /\ ex[e].deltaOut = first.content
                  /\ ex[e].nDelta - first.at = CeilDiv(Len(first.content), chunkSize)

(* C6: finalize is latched: onComplete is invoked at most once and the     *)
(* assistant turn is appended to the history cache at most once.           *)
C6_FinalizeLatched ==
    \A e \in Exchanges :
        /\ Cardinality(CompleteAt(ex[e])) <= 1
        /\ Cardinality(AssistantTurns(ex[e].sessionId)) <= 1

\* a message event asked for finalize again after the exchange completed
C6_Witness ==
    \E e \in Exchanges :
        /\ ex[e].completed /\ ex[e].hasDelta
        /\ ex[e].lastEvent.kind = "message"
        /\ ex[e].lastEvent.content = Short
        /\ ex[e].pendingToolCalls = 0
        /\ ex[e].timeoutHandle = "fired"
        /\ Cardinality(CompleteAt(ex[e])) = 1

(* C7: a message event with tool requests and empty content changes no     *)
(* state of the exchange and fires no callback.                            *)
C7_ToolRequestMessageIgnored ==
    [][\A e \in Exchanges :
         (/\ Dispatched(e)
          /\ ex'[e].lastEvent.kind = "message"
          /\ ex'[e].lastEvent.toolRequests
          /\ ex'[e].lastEvent.content = "")
         => Locals(ex'[e]) = Locals(ex[e]) /\ cache' = cache]_vars

\* such a message arrived when the buffer held content and no tool was pending
C7_Witness ==
    \E e \in Exchanges :
        /\ ex[e].lastEvent.kind = "message"
        /\ ex[e].lastEvent.toolRequests
        /\ ex[e].lastEvent.content = ""
        /\ ex[e].fullContent # ""
        /\ ex[e].pendingToolCalls = 0
        /\ ~ex[e].completed

(* C8: a message event received while tool calls are pending never         *)
(* completes the exchange and fires no callback; its content becomes the   *)
(* buffer when the buffer is empty, and nothing else changes.              *)
C8_MessageDeferredWhilePending ==
    [][\A e \in Exchanges :
         (/\ Dispatched(e)
          /\ ex'[e].lastEvent.kind = "message"
          /\ ex[e].pendingToolCalls > 0)
         => /\ cache' = cache
            /\ Locals(ex'[e]) =
                 [Locals(ex[e]) EXCEPT !.fullContent =
                     IF @ = "" THEN ex'[e].lastEvent.content ELSE @]]_vars

\* a message with content arrived during a pending tool call: its content
\* is the buffer and the exchange has not completed
C8_Witness ==
    \E e \in Exchanges :
        /\ ex[e].lastEvent.kind = "message"
        /\ ex[e].lastEvent.content = Short
        /\ ex[e].pendingToolCalls > 0
        /\ ex[e].fullContent = Short
        /\ ~ex[e].completed
        /\ ex[e].terminal = <<>>

(* C9: a session-idle event completes the exchange exactly when it has not *)
(* completed and no tool call is pending: then onComplete fires with the   *)
(* buffer (possibly empty); otherwise the event changes nothing.           *)
C9_IdleCompletesIff ==
    [][\A e \in Exchanges :
         (Dispatched(e) /\ ex'[e].lastEvent.kind = "idle")
         => IF ~ex[e].completed /\ ex[e].pendingToolCalls = 0
            THEN /\ ex'[e].completed
                 /\ ex'[e].terminal = Append(ex[e].terminal,
                        [kind |-> "complete", val |-> ex[e].fullContent,
                         det |-> ex[e].cleanupCalled \/ ex[e].cleanupTimers > 0])
            ELSE Locals(ex'[e]) = Locals(ex[e]) /\ cache' = cache]_vars

\* idle completed an exchange with the empty buffer
C9_Witness ==
    \E e \in Exchanges :
        /\ ex[e].lastEvent.kind = "idle"
        /\ ex[e].nEvents = 2
        /\ ex[e].terminal # <<>>
        /\ ex[e].terminal[1] = [kind |-> "complete", val |-> "", det |-> FALSE]

(* C10 as claimed: the timeout, firing before completion, ends the         *)
(* exchange with onComplete(buffer) when the buffer is non-empty and with  *)
(* onError(timeout) when it is empty.  Fails when the timer fires while    *)
(* session.send is still pending and send then rejects.                    *)
TimedOut(x) == x.timeoutSeen.fired /\ ~x.timeoutSeen.completed

C10_Outcome ==
    \A e \in Exchanges :
        LET x == ex[e] IN
        TimedOut(x) =>
            /\ x.cleanupCalled \/ x.cleanupTimers > 0
            /\ IF x.timeoutSeen.buffer # ""
               THEN /\ Len(x.terminal) > x.timeoutSeen.at
                    /\ x.terminal[x.timeoutSeen.at + 1].kind = "complete"
                    /\ x.terminal[x.timeoutSeen.at + 1].val = x.timeoutSeen.buffer
               ELSE /\ ~x.listening
                    /\ x.timeoutSeen.pc = "waiting" =>
                          /\ Len(x.terminal) > x.timeoutSeen.at
                          /\ x.terminal[x.timeoutSeen.at + 1].kind = "error"
                          /\ x.terminal[x.timeoutSeen.at + 1].val = TimeoutError

---------------------------------------------------------------------------
\* the timeout callback of e runs in this step
TimerFires(e) == ~ex[e].timeoutSeen.fired /\ ex'[e].timeoutSeen.fired

\* what the caller of sendMessage observes of an exchange: the callbacks it
\* has received; with the buffer and the latch, what a timer step of a
\* completed exchange must leave alone
Observed(x) ==
    [terminal |-> x.terminal, deltaOut |-> x.deltaOut, nDelta |-> x.nDelta,
     nReasoning |-> x.nReasoning, toolOut |-> x.toolOut,
     fullContent |-> x.fullContent, completed |-> x.completed,
     listening |-> x.listening, cleanupTimers |-> x.cleanupTimers]

(* C11: once finalize has set completed, the timeout has no effect the     *)
(* caller can see: if its timer fires later, also inside the grace window  *)
(* before cleanup runs, no callback is invoked and neither the buffer, the *)
(* listeners nor the history cache change (the callback only settles the   *)
(* completion promise); and once cleanup has run the timer is cleared and  *)
(* never fires.                                                            *)
C11_TimerAfterFinalizeSilent ==
    /\ [](\A e \in Exchanges : ex[e].cleanupCalled => ex[e].timeoutHandle # "armed")
    /\ [][\A e \in Exchanges :
            (ex[e].completed /\ TimerFires(e)) =>
                /\ Observed(ex'[e]) = Observed(ex[e])
                /\ cache' = cache]_vars

\* the timer fired inside the grace window of an exchange that an idle
\* event had completed; the caller still holds that one completion
C11_Witness ==
    \E e \in Exchanges :
        /\ ex[e].timeoutSeen.fired
        /\ ex[e].timeoutSeen.completed
        /\ ~ex[e].cleanupCalled
        /\ ex[e].cleanupTimers > 0
        /\ ex[e].terminal = <<[kind |-> "complete", val |-> "", det |-> FALSE]>>

---------------------------------------------------------------------------
\* sendMessage has registered its subscriptions on the session
Subscribed(x) == x.completionPromise # "none"

(* C12: whichever way an exchange ends (completion by message or idle,     *)
(* timeout, session error, failure of send), its event subscriptions are   *)
(* eventually detached, and the unsubscribe function of each subscription  *)
(* is invoked exactly once, however many paths call cleanup: never while   *)
(* the listeners are attached, once when they are detached, never twice.   *)
C12_DetachedExactlyOnce ==
    /\ [](\A e \in Exchanges :
            /\ ex[e].unsubscribed <= 1
            /\ ex[e].listening => ex[e].unsubscribed = 0
            /\ (Subscribed(ex[e]) /\ ~ex[e].listening) => ex[e].unsubscribed = 1)
    /\ \A e \in Exchanges : ex[e].listening ~> ~ex[e].listening

\* cleanup was requested twice, by the session-error listener and then by
\* the catch block of a rejected send; the subscriptions were released once
C12_Witness ==
    \E e \in Exchanges :
        /\ Len(ex[e].terminal) = 2
        /\ ex[e].terminal[1].val = "boom"
        /\ ex[e].terminal[2].val = SendError
        /\ ex[e].cleanupCalled
        /\ ~ex[e].listening
        /\ ex[e].unsubscribed = 1

---------------------------------------------------------------------------
\* the callback onToolResult as the caller sees it for a terminal tool event
ResultKind(evt) == IF evt.kind = "tool_complete" THEN "result" ELSE "error"
IsToolTerminal(evt) == evt.kind \in {"tool_complete", "tool_error"}

(* C13: finalize does not detach the listeners synchronously: they stay    *)
(* attached until cleanup runs, and a tool-complete or tool-error event    *)
(* that is dispatched after finalize, while they are attached, is still    *)
(* forwarded to the caller as one onToolResult for its call id.            *)
C13_ToolResultAfterFinalize ==
    /\ [](\A e \in Exchanges :
            (Subscribed(ex[e]) /\ ~ex[e].cleanupCalled) => ex[e].listening)
    /\ [][\A e \in Exchanges :
            /\ (~ex[e].completed /\ ex'[e].completed) =>
                   ex'[e].listening = ex[e].listening
            /\ (ex[e].completed /\ Dispatched(e) /\ IsToolTerminal(ex'[e].lastEvent)) =>
                   /\ Len(ex'[e].toolOut) = Len(ex[e].toolOut) + 1
                   /\ SubSeq(ex'[e].toolOut, 1, Len(ex[e].toolOut)) = ex[e].toolOut
                   /\ ex'[e].toolOut[Len(ex'[e].toolOut)][1] = ResultKind(ex'[e].lastEvent)
                   /\ ex'[e].toolOut[Len(ex'[e].toolOut)][3] = ex'[e].lastEvent.id]_vars

\* an idle event completed the exchange with an empty buffer and the next
\* event, the completion of tool call c1, was forwarded as onToolResult
C13_Witness ==
    \E e \in Exchanges :
        /\ ex[e].nEvents = 2
        /\ ex[e].lastEvent = [kind |-> "tool_complete", id |-> "c1"]
        /\ ex[e].terminal = <<[kind |-> "complete", val |-> "", det |-> FALSE]>>
        /\ ex[e].toolOut = <<<<"result", "c1", "c1">>>>

---------------------------------------------------------------------------
\* Per call id, the tool calls that the events forwarded so far leave open:
\* a start opens one, a terminal event closes one of its own id if any is
\* open.  log is the sequence of onToolCall/onToolResult callbacks, one per
\* tool event received.
RECURSIVE OpenCalls(_)
OpenCalls(log) ==
    IF log = <<>> THEN [id \in ToolCallIds |-> 0]
    ELSE LET prev == OpenCalls(SubSeq(log, 1, Len(log) - 1))
             ev == log[Len(log)]
         IN  IF ev[1] = "call"
             THEN [prev EXCEPT ![ev[3]] = @ + 1]
             ELSE [prev EXCEPT ![ev[3]] = IF @ > 0 THEN @ - 1 ELSE 0]

RECURSIVE SumOver(_, _)
SumOver(f, S) ==
    IF S = {} THEN 0
    ELSE LET id == CHOOSE id \in S : TRUE IN f[id] + SumOver(f, S \ {id})

(* C14: after any sequence of tool-start, tool-complete and tool-error     *)
(* events the pending count is the number of started calls with no         *)
(* terminal event yet: a terminal event for an id that was never started,  *)
(* or a duplicate terminal event, does not reduce the count of the other   *)
(* calls.  Fails: the counter is decremented by every terminal event       *)
(* whatever its id.                                                        *)
C14_PendingCountsOpenCalls ==
    \A e \in Exchanges :
        ex[e].pendingToolCalls = SumOver(OpenCalls(ex[e].toolOut), ToolCallIds)

---------------------------------------------------------------------------
\* toolCallId id has no tool-start recorded in exchange record x
UnknownCall(x, id) == x.toolNameByCallId[id] = NoName

\* what a tool event must leave alone for the exchange to go on as before
Course(x) ==
    [pc |-> x.pc, terminal |-> x.terminal, completed |-> x.completed,
     listening |-> x.listening, cleanupCalled |-> x.cleanupCalled,
     completionPromise |-> x.completionPromise, fullContent |-> x.fullContent]

(* C15: the pending-tool-call counter is never negative, and a             *)
(* tool-complete or tool-error event for a call id that was never started  *)
(* neither raises an error nor aborts the exchange: the counter stays at   *)
(* or above zero, no terminal callback is invoked, the listeners stay      *)
(* attached and the exchange continues where it was.                       *)
C15_PendingNeverNegative ==
    /\ [](\A e \in Exchanges : ex[e].pendingToolCalls >= 0)
    /\ [][\A e \in Exchanges :
            (/\ Dispatched(e)
             /\ IsToolTerminal(ex'[e].lastEvent)
             /\ UnknownCall(ex[e], ex'[e].lastEvent.id)) =>
                /\ Course(ex'[e]) = Course(ex[e])
                /\ ex'[e].pendingToolCalls \in {ex[e].pendingToolCalls - 1, 0}
                /\ ex'[e].pendingToolCalls <= ex[e].pendingToolCalls]_vars

\* a tool-error for the unknown call c2 arrived with no call pending; the
\* counter is still zero and the exchange still waits for its events
C15_Witness ==
    \E e \in Exchanges :
        /\ ex[e].lastEvent = [kind |-> "tool_error", id |-> "c2"]
        /\ UnknownCall(ex[e], "c2")
        /\ ex[e].nEvents = 1
        /\ ex[e].pendingToolCalls = 0
        /\ ex[e].listening
        /\ ex[e].terminal = <<>>

---------------------------------------------------------------------------
\* the name that the latest tool-start forwarded for call id carried, or
\* the call id itself when no start of that id was forwarded
RECURSIVE StartedName(_, _)
StartedName(log, id) ==
    IF log = <<>> THEN id
    ELSE LET ev == log[Len(log)]
         IN  IF ev[1] = "call" /\ ev[3] = id THEN ev[2]
             ELSE StartedName(SubSeq(log, 1, Len(log) - 1), id)

(* C16: every tool-complete and tool-error event is forwarded as exactly   *)
(* one onToolResult carrying the call id of the event and the name given   *)
(* at the tool-start of that id, or the call id when there was no start;   *)
(* a tool-error is passed as a failure result, not through onError, and    *)
(* does not end the exchange.                                              *)
C16_ToolTerminalForwardedOnce ==
    [][\A e \in Exchanges :
        (Dispatched(e) /\ IsToolTerminal(ex'[e].lastEvent)) =>
            /\ ex'[e].toolOut =
                  Append(ex[e].toolOut,
                         << ResultKind(ex'[e].lastEvent),
                            StartedName(ex[e].toolOut, ex'[e].lastEvent.id),
                            ex'[e].lastEvent.id >>)
            /\ ex'[e].terminal = ex[e].terminal
            /\ ex'[e].completed = ex[e].completed
            /\ ex'[e].listening = ex[e].listening
            /\ ex'[e].pc = ex[e].pc]_vars

\* call c1 was started as grep and again as ls; its tool-error was
\* forwarded under the name ls as a failure result, no onError was invoked
C16_Witness ==
    \E e \in Exchanges :
        /\ ex[e].toolOut = << <<"call", "grep", "c1">>, <<"call", "ls", "c1">>,
                              <<"error", "ls", "c1">> >>
        /\ ex[e].terminal = <<>>
        /\ ex[e].listening

---------------------------------------------------------------------------
(* C17: in every reachable state every session's list in the message       *)
(* history cache has at most MAX_MESSAGES_PER_SESSION (100) entries,       *)
(* whether it was filled by the appends of sendMessage or seeded by        *)
(* getSessionMessages from the runtime's event log.  Fails: the seeding    *)
(* stores the reconstructed list as it is.                                 *)
C17_CacheBounded ==
    \A s \in DOMAIN cache : Len(cache[s]) <= MAX_MESSAGES_PER_SESSION

---------------------------------------------------------------------------
\* the cached list of session sid, empty when the session has none
CachedList(c, sid) == IF sid \in DOMAIN c THEN c[sid] ELSE <<>>

\* the last n entries of s
LastN(s, n) ==
    IF Len(s) <= n THEN s ELSE [i \in 1..n |-> s[Len(s) - n + i]]

\* sendMessage appends the prompt of e in this step
AppendsPrompt(e) == ex[e].pc = "resolving" /\ ex'[e].pc = "sending"

\* finalize runs its body for e in this step; the content it was given is
\* the value of the onComplete it invokes
Finalizes(e) == ~ex[e].completed /\ ex'[e].completed
FinalizedContent(e) == ex'[e].terminal[Len(ex'[e].terminal)].val

\* the list of session sid after this step is the list before it with
\* entry appended and then cut to its last MAX_MESSAGES_PER_SESSION entries
AppendedTrimmed(sid, entry) ==
    /\ sid \in DOMAIN cache'
    /\ cache'[sid] =
          LastN(Append(CachedList(cache, sid), entry), MAX_MESSAGES_PER_SESSION)

(* C18: an append to a session's cache keeps the entries in order and,     *)
(* when the count would exceed the bound N, drops the oldest (count - N)   *)
(* entries in one trim: the list afterwards is the last N entries of the   *)
(* old list extended with the new entry, every entry with its content in   *)
(* full.                                                                   *)
C18_AppendKeepsLastN ==
    [][\A e \in Exchanges :
        /\ AppendsPrompt(e) =>
              AppendedTrimmed(ex[e].sessionId,
                              [role |-> "user", content |-> ex[e].prompt])
        /\ (Finalizes(e) /\ ~IsBlank(FinalizedContent(e))) =>
              AppendedTrimmed(ex[e].sessionId,
                              [role |-> "assistant", content |-> FinalizedContent(e)])]_vars

\* a session seeded with 101 entries received the prompt and the answer of
\* an exchange: the first append dropped two entries at once, the second
\* one, and the list holds the last 100 in order
C18_Witness ==
    \E e \in Exchanges :
        LET sid == ex[e].sessionId IN
        /\ sid \in DOMAIN cache
        /\ Len(cache[sid]) = MAX_MESSAGES_PER_SESSION
        /\ cache[sid][1] = [role |-> "assistant", content |-> TurnText(4)]
        /\ cache[sid][MAX_MESSAGES_PER_SESSION - 2] =
              [role |-> "user", content |-> TurnText(MAX_MESSAGES_PER_SESSION + 1)]
        /\ cache[sid][MAX_MESSAGES_PER_SESSION - 1] =
              [role |-> "user", content |-> ex[e].prompt]
        /\ cache[sid][MAX_MESSAGES_PER_SESSION] = [role |-> "assistant", content |-> "x"]

---------------------------------------------------------------------------
\* call r of getSessionMessages returns in this step
Returns(r) == reads[r].pc # "returned" /\ reads'[r].pc = "returned"
\* ... or is called and returns in the same step
ReturnsAtOnce(r) == reads'[r].calls = reads[r].calls + 1 /\ reads'[r].pc = "returned"

\* the history that an event log stands for: its user and assistant
\* messages in order, each with the first of its text fields that is set,
\* without those whose text is empty or blank
TextOf(ev) ==
    LET d == ev.data IN
    IF ev.type = "user.message"
    THEN (IF d.prompt # "" THEN d.prompt
          ELSE IF d.content # "" THEN d.content ELSE d.text)
    ELSE (IF d.content # "" THEN d.content
          ELSE IF d.text # "" THEN d.text ELSE d.message)

\* list is that history of events
IsHistoryOf(list, events) ==
    LET kept == {i \in 1..Len(events) :
                    /\ events[i].type \in {"user.message", "assistant.message"}
                    /\ ~IsBlank(TextOf(events[i]))}
    IN  /\ Len(list) = Cardinality(kept)
        /\ \A i \in kept :
              list[Cardinality({k \in kept : k <= i})] =
                 [role |-> IF events[i].type = "user.message" THEN "user"
                           ELSE "assistant",
                  content |-> TextOf(events[i])]

(* C19: getSessionMessages(id) returns the cached list unchanged when one  *)
(* exists; when none exists it rebuilds the history from the event log of  *)
(* the cached session handle, returns it, and stores it as the session's   *)
(* cache only if it has at least one entry; when the rebuilt history is    *)
(* empty, when reading the log fails or when no handle is cached, it       *)
(* returns the empty list and does not create a cache entry.               *)
C19_GetSessionMessages ==
    [][\A r \in Reads :
        LET sid == reads[r].sessionId
            result == reads'[r].result
        IN
        /\ ReturnsAtOnce(r) =>
              /\ cache' = cache
              /\ IF sid \in DOMAIN cache
                 THEN result = cache[sid]
                 ELSE sid \notin DOMAIN activeSessions /\ result = <<>>
        /\ (reads'[r].calls = reads[r].calls + 1 /\ reads'[r].pc = "awaiting") =>
              /\ sid \notin DOMAIN cache
              /\ sid \in DOMAIN activeSessions
              /\ cache' = cache
        /\ (Returns(r) /\ reads[r].pc = "awaiting") =>
              IF reads'[r].path = "log"
              THEN /\ IsHistoryOf(result, reads'[r].log)
                   /\ IF result # <<>>
                      THEN /\ DOMAIN cache' = (DOMAIN cache) \cup {sid}
                           /\ cache'[sid] = result
                           /\ \A s \in (DOMAIN cache) \ {sid} : cache'[s] = cache[s]
                      ELSE cache' = cache
              ELSE /\ result = <<>>
                   /\ cache' = cache]_vars

\* a session with a handle and no cache was read: the log held a user
\* message, a tool event, an assistant message and two blank messages; the
\* two messages with text were returned and are now the session's cache
C19_Witness ==
    \E r \in Reads :
        /\ reads[r].pc = "returned"
        /\ reads[r].path = "log"
        /\ reads[r].log = MixedLog
        /\ reads[r].result = << [role |-> "user", content |-> "q"],
                                [role |-> "assistant", content |-> "a"] >>
        /\ reads[r].sessionId \in DOMAIN cache
        /\ cache[reads[r].sessionId] = reads[r].result

---------------------------------------------------------------------------
\* entry a directly followed by entry b somewhere in list
Adjacent(list, a, b) ==
    \E i \in 1..(Len(list) - 1) : list[i] = a /\ list[i + 1] = b

PromptEntry(x) == [role |-> "user", content |-> x.prompt]
AnswerEntry(content) == [role |-> "assistant", content |-> content]

\* no getSessionMessages call has stored a reconstruction
NeverSeeded == \A r \in Reads : ~reads[r].seeded

---------------------------------------------------------------------------
\* session id sid has no handle, no cached history and no agent association
\* in the registries regs (a state record or the next-state values)
Purged(sid, handles, history, agents) ==
    /\ sid \notin DOMAIN handles
    /\ sid \notin DOMAIN history
    /\ sid \notin DOMAIN agents

\* call c of deleteSession leaves its await of session.destroy() in this step
DestroySettles(c) == calls[c].pc = "destroying" /\ calls'[c].pc # "destroying"

\* call c of deleteSession reaches its purge in this step
Purges(c) ==
    /\ calls'[c].op = "delete"
    /\ calls'[c].pc = "deleting"
    /\ calls[c].pc # "deleting"

(* C21: deleteSession(id) removes the session handle, the session's cached *)
(* history and its agent association also when destroying the runtime      *)
(* session throws: the error of destroy is swallowed, the purge follows in *)
(* the same turn, and the call can only fail later, on the runtime's       *)
(* deleteSession.                                                          *)
C21_DeletePurges ==
    [][\A c \in Calls :
        /\ DestroySettles(c) =>
              /\ Purges(c)
              /\ calls'[c].outcome = "none"
        /\ Purges(c) =>
              /\ Purged(calls'[c].sessionId, activeSessions', cache', sessionAgentMap')
              /\ calls'[c].issued[Len(calls'[c].issued)] = "delete"
        /\ (calls'[c].op = "delete" /\ calls'[c].outcome = "threw"
               /\ calls[c].outcome = "none") =>
              calls[c].pc = "deleting"]_vars

\* a session was created by one call and deleted by the other; destroy()
\* threw, the call went on and returned, and nothing of the session is left
C21_Witness ==
    \E c, d \in Calls :
        /\ calls[c].op = "getOrCreate"
        /\ calls[c].issued = <<"list", "create">>
        /\ calls[c].outcome = "returned"
        /\ calls[d].op = "delete"
        /\ calls[d].handle = calls[c].handle
        /\ calls[d].destroy = "threw"
        /\ calls[d].outcome = "returned"
        /\ Purged(calls[d].sessionId, activeSessions, cache, sessionAgentMap)

---------------------------------------------------------------------------
\* a call of operation op starts in slot c in this step
Starts(c, op) == calls'[c].n = calls[c].n + 1 /\ calls'[c].op = op

\* call c of getOrCreateSession returns a handle in this step
ReturnsHandle(c) ==
    /\ calls'[c].op = "getOrCreate"
    /\ calls'[c].outcome = "returned"
    /\ calls'[c].n = calls[c].n => calls[c].outcome = "none"

\* call c completes a resume or a creation in this step
Registers(c) ==
    calls[c].pc \in {"resuming", "creating"} /\ calls'[c].outcome = "returned"

(* C22: once getOrCreateSession(id) has returned a handle, a further       *)
(* getOrCreateSession(id) returns the same handle instance and issues no   *)
(* list, resume or creation call to the runtime, as long as the handle is  *)
(* cached: a returned handle is the one cached for the id, a call that     *)
(* finds a cached handle returns it at once with no runtime call, and the  *)
(* cached handle of an id is only replaced or removed when a resume or a   *)
(* creation completes or deleteSession purges.                             *)
C22_SecondCallReturnsCached ==
    [][/\ \A c \in Calls :
            /\ ReturnsHandle(c) =>
                  /\ calls'[c].sessionId \in DOMAIN activeSessions'
                  /\ activeSessions'[calls'[c].sessionId] = calls'[c].handle
            /\ (Starts(c, "getOrCreate")
                   /\ calls'[c].sessionId \in DOMAIN activeSessions) =>
                  /\ calls'[c].outcome = "returned"
                  /\ calls'[c].handle = activeSessions[calls'[c].sessionId]
                  /\ calls'[c].issued = <<>>
                  /\ runtime' = runtime
                  /\ activeSessions' = activeSessions
       /\ activeSessions' # activeSessions =>
             \E c \in Calls : Registers(c) \/ DestroySettles(c)]_vars

\* the first call created the session, the second call returned the same
\* handle without a runtime call
C22_Witness ==
    \E c, d \in Calls :
        /\ calls[c].op = "getOrCreate"
        /\ calls[c].issued = <<"list", "create">>
        /\ calls[c].outcome = "returned"
        /\ calls[d].op = "getOrCreate"
        /\ calls[d].issued = <<>>
        /\ calls[d].outcome = "returned"
        /\ calls[d].handle = calls[c].handle
        /\ calls[d].handle # NoHandle
        /\ Len(runtime.objects) = 1

---------------------------------------------------------------------------
(* C23, C24: resumption first, creation as the fall-back *)

\* the step in which listSessions settles for call c
ListSettles(c) == calls[c].pc = "listing" /\ calls'[c].pc # "listing"

\* the step in which resumeSession settles for call c
ResumeSettles(c) == calls[c].pc = "resuming" /\ calls'[c].pc # "resuming"

\* call c goes on to createSession: the creation call is issued and the call
\* of getOrCreateSession is still open
FallsBack(c) ==
    /\ calls'[c].pc = "creating"
    /\ calls'[c].issued = Append(calls[c].issued, "create")
    /\ calls'[c].outcome = "none"

\* call c returns the handle that createSession has just made and stored
ReturnsCreated(c) ==
    LET session == calls'[c].handle
        sid == calls[c].sessionId
    IN  /\ calls'[c].outcome = "returned"
        /\ Len(runtime'.objects) = Len(runtime.objects) + 1
        /\ session = Len(runtime'.objects)
        /\ runtime'.objects[session].hook = "create"
        /\ sid \in DOMAIN activeSessions'
        /\ activeSessions'[sid] = session

\* C23: when the runtime does not list the id, or listing throws, or resuming
\* throws, getOrCreateSession goes on to createSession and, when the
\* creation resolves, returns the handle it made; the call throws only when
\* the creation itself is rejected, never with the failure of the
\* resumption.
C23_FallsBackToCreate ==
    [][\A c \in Calls :
          /\ (ListSettles(c) /\ calls'[c].list \in {"unlisted", "threw"})
                => FallsBack(c)
          /\ (ResumeSettles(c) /\ calls'[c].resume = "threw") => FallsBack(c)
          /\ (calls[c].pc = "creating" /\ calls'[c].pc # "creating"
                /\ calls'[c].outcome # "threw") => ReturnsCreated(c)
          /\ (calls[c].op = "getOrCreate" /\ calls[c].outcome = "none"
                /\ calls'[c].n = calls[c].n /\ calls'[c].outcome = "threw")
                => calls[c].pc = "creating"]_vars

\* one call has fallen back after a failed listing or an unlisted id, the
\* other after a failed resumption, and both have returned a created handle
C23_Witness ==
    \E c, d \in Calls :
        /\ calls[c].list \in {"unlisted", "threw"}
        /\ calls[c].outcome = "returned"
        /\ calls[c].handle # NoHandle
        /\ runtime.objects[calls[c].handle].hook = "create"
        /\ calls[d].list = "listed"
        /\ calls[d].resume = "threw"
        /\ calls[d].outcome = "returned"
        /\ calls[d].handle # NoHandle
        /\ runtime.objects[calls[d].handle].hook = "create"

\* the runtime calls a call of getOrCreateSession can have issued, in order
Orders ==
    { <<>>, <<"list">>, <<"list", "resume">>, <<"list", "create">>,
      <<"list", "resume", "create">> }

\* call c has issued a creation call
Creates(c) == \E i \in 1..Len(calls[c].issued) : calls[c].issued[i] = "create"

\* C24: getOrCreateSession issues a creation call only after it has looked
\* into the handle cache and found nothing, has queried the runtime's list
\* and, when the id was listed, has tried to resume it and failed; when the
\* id is listed and the resume succeeds, no creation call is issued.
C24_CreateOnlyAfterResumption ==
    /\ [](\A c \in Calls : calls[c].op = "getOrCreate" =>
             /\ calls[c].issued \in Orders
             /\ Creates(c) =>
                   \/ calls[c].list \in {"unlisted", "threw"}
                        /\ calls[c].issued = <<"list", "create">>
                   \/ calls[c].list = "listed" /\ calls[c].resume = "threw"
                        /\ calls[c].issued = <<"list", "resume", "create">>
             /\ calls[c].list = "listed" =>
                   Len(calls[c].issued) >= 2 /\ calls[c].issued[2] = "resume"
             /\ calls[c].resume = "ok" =>
                   calls[c].issued = <<"list", "resume">>)
    /\ [][\A c \in Calls :
             /\ (Starts(c, "getOrCreate")
                   /\ calls'[c].sessionId \in DOMAIN activeSessions)
                   => calls'[c].issued = <<>> /\ calls'[c].pc = "returned"
             /\ (Starts(c, "getOrCreate")
                   /\ calls'[c].sessionId \notin DOMAIN activeSessions)
                   => calls'[c].issued = <<"list">>]_vars

\* one call has created the session after a failed resume, the other has
\* resumed a listed session and created nothing
C24_Witness ==
    \E c, d \in Calls :
        /\ calls[c].issued = <<"list", "resume", "create">>
        /\ calls[c].outcome = "returned"
        /\ calls[d].issued = <<"list", "resume">>
        /\ calls[d].resume = "ok"
        /\ calls[d].outcome = "returned"

---------------------------------------------------------------------------
(* C25: abortSession *)

\* a step of call c of abortSession: the call starts or its await settles
AbortStep(c) == calls'[c] # calls[c] /\ calls'[c].op = "abort"

\* the registries, the caches and the runtime's sessions stay as they are
RegistryUnchanged ==
    /\ activeSessions' = activeSessions
    /\ cache' = cache
    /\ sessionAgentMap' = sessionAgentMap
    /\ sessionPermissionPolicy' = sessionPermissionPolicy
    /\ userInputHandlers' = userInputHandlers
    /\ permissionHandlers' = permissionHandlers
    /\ runtime' = runtime

\* C25: abortSession(id) for a session without a handle makes no runtime
\* call, returns without an error and changes no registry; for a session
\* with a handle it issues the one abort request on that handle and nothing
\* else: no exchange has its completed latch set, its onComplete or onError
\* called or its listeners detached by a step of abortSession.
C25_AbortOnlyRequests ==
    [][\A c \in Calls : AbortStep(c) =>
          /\ ex' = ex
          /\ reads' = reads
          /\ RegistryUnchanged
          /\ (Starts(c, "abort")
                /\ calls'[c].sessionId \notin DOMAIN activeSessions) =>
                  /\ calls'[c].issued = <<>>
                  /\ calls'[c].outcome = "returned"
          /\ (Starts(c, "abort")
                /\ calls'[c].sessionId \in DOMAIN activeSessions) =>
                  /\ calls'[c].issued = <<"abort">>
                  /\ calls'[c].handle = activeSessions[calls'[c].sessionId]
                  /\ calls'[c].outcome = "none"]_vars

\* an abort of the session has gone through while an exchange on it is in
\* flight, and the exchange is still listening with nothing reported; an
\* earlier abort found no handle
C25_Witness ==
    \E c, d \in Calls, e \in Exchanges :
        /\ calls[c].op = "abort"
        /\ calls[c].issued = <<"abort">>
        /\ calls[c].outcome = "returned"
        /\ calls[d].op = "abort"
        /\ calls[d].issued = <<>>
        /\ calls[d].outcome = "returned"
        /\ ex[e].sessionId = calls[c].sessionId
        /\ ex[e].listening
        /\ ~ex[e].completed
        /\ ex[e].terminal = <<>>
        /\ ex[e].unsubscribed = 0

---------------------------------------------------------------------------
(* C26..C30: permission and user-input requests and their responders *)

\* the runtime makes a request of the kind through slot q in this step
Asks(q, kind) ==
    requests'[q].n = requests[q].n + 1 /\ requests'[q].kind = kind

\* the session id of the session object that request q came through
AskedSession(q) == runtime.objects[requests'[q].session].sessionId

\* the hook of request q resolves in the step of the request, with result,
\* and invokes no responder
ResolvesAtOnce(q, result) ==
    /\ requests'[q].state = "resolved"
    /\ requests'[q].result = result
    /\ requests'[q].handler = NoHandler

\* the session's permission policy when the request is made
PolicyInForce(q) == sessionPermissionPolicy[AskedSession(q)]

\* C26: a permission request on a session whose policy is auto-approve
\* resolves to approved, and on a session whose policy is deny-all to
\* denied-by-rules; in both cases the hook resolves at once and invokes no
\* responder, registered or not, whether the session object carries the
\* hook of createSession or the hook of the resume.
C26_PolicyDecidesWithoutResponder ==
    [][\A q \in Requests :
          (Asks(q, "permission") /\ AskedSession(q) \in DOMAIN sessionPermissionPolicy)
          => /\ PolicyInForce(q) = "auto-approve" => ResolvesAtOnce(q, Approved)
             /\ PolicyInForce(q) = "deny-all" => ResolvesAtOnce(q, DeniedByRules)]_vars

\* a permission request on a resumed session under auto-approve has been
\* approved, or one on a created session under deny-all has been denied,
\* with a permission responder registered for the session
C26_Witness ==
    \E q \in Requests :
        LET o == runtime.objects[requests[q].session] IN
        /\ requests[q].kind = "permission"
        /\ requests[q].state = "resolved"
        /\ requests[q].handler = NoHandler
        /\ o.sessionId \in DOMAIN permissionHandlers
        /\ \/ /\ o.hook = "resume"
              /\ sessionPermissionPolicy[o.sessionId] = "auto-approve"
              /\ requests[q].result = Approved
           \/ /\ o.hook = "create"
              /\ sessionPermissionPolicy[o.sessionId] = "deny-all"
              /\ requests[q].result = DeniedByRules

\* C27: a permission request on a session whose policy is ask-user, made
\* while no permission responder is registered for the session, resolves in
\* the step of the request to the denial "no approval rule and could not
\* request from user", which is not the denial by policy; it is not left
\* pending.
C27_NoResponderDenies ==
    [][\A q \in Requests :
          (/\ Asks(q, "permission")
           /\ AskedSession(q) \in DOMAIN sessionPermissionPolicy
           /\ PolicyInForce(q) = "ask-user"
           /\ AskedSession(q) \notin DOMAIN permissionHandlers)
          => /\ ResolvesAtOnce(q, DeniedNoResponder)
             /\ requests'[q].result # DeniedByRules
             /\ requests'[q].result # Approved]_vars

\* a permission request under ask-user has been denied for want of a
\* responder
C27_Witness ==
    \E q \in Requests :
        LET o == runtime.objects[requests[q].session] IN
        /\ requests[q].kind = "permission"
        /\ sessionPermissionPolicy[o.sessionId] = "ask-user"
        /\ requests[q].state = "resolved"
        /\ requests[q].result = DeniedNoResponder
        /\ requests[q].handler = NoHandler

\* C28: a user-input request on a session with no user-input responder
\* registered resolves in the step of the request with an empty answer that
\* is marked as not freeform.
C28_NoResponderEmptyNonFreeform ==
    [][\A q \in Requests :
          (Asks(q, "userInput") /\ AskedSession(q) \notin DOMAIN userInputHandlers)
          => ResolvesAtOnce(q, [answer |-> "", wasFreeform |-> FALSE])]_vars

\* what the caller of a hook gets to see of request q
Outcome(st, q) ==
    [state   |-> st.requests[q].state,
     result  |-> st.requests[q].result,
     handler |-> st.requests[q].handler]

\* the state with policy p in force for session sid, in the policy map and
\* in the policy that the hooks of the session's objects have captured
WithPolicy(st, sid, p) ==
    [st EXCEPT !.sessionPermissionPolicy = MapSet(@, sid, p),
               !.runtime.objects =
                   [i \in DOMAIN @ |->
                       IF @[i].sessionId = sid
                       THEN [@[i] EXCEPT !.permPolicy = p] ELSE @[i]]]

\* C29: a user-input request has the same outcome under every permission
\* policy of its session (auto-approve, deny-all and ask-user), all else
\* being equal; and whenever a user-input responder is registered for the
\* session the request is handed to that responder.
C29_UserInputIgnoresPolicy ==
    /\ [](\A q \in Requests : \A session \in 1..Len(runtime.objects) :
            \A p \in Policies :
               Outcome(UserInputHook(
                    WithPolicy(State, runtime.objects[session].sessionId, p),
                    q, session), q)
                 = Outcome(UserInputHook(State, q, session), q))
    /\ [][\A q \in Requests :
            (Asks(q, "userInput") /\ AskedSession(q) \in DOMAIN userInputHandlers)
            => /\ requests'[q].state = "pending"
               /\ requests'[q].handler = userInputHandlers[AskedSession(q)]]_vars

\* a user-input request on a session under deny-all is with the session's
\* responder
C29_Witness ==
    \E q \in Requests :
        LET o == runtime.objects[requests[q].session] IN
        /\ requests[q].kind = "userInput"
        /\ sessionPermissionPolicy[o.sessionId] = "deny-all"
        /\ requests[q].state = "pending"
        /\ requests[q].handler \in Handlers
        /\ o.sessionId \in DOMAIN userInputHandlers
        /\ userInputHandlers[o.sessionId] = requests[q].handler

\* map after is map before with key set to value and nothing else changed
SetsOnly(before, after, key, value) ==
    /\ DOMAIN after = DOMAIN before \cup {key}
    /\ after[key] = value
    /\ \A k \in DOMAIN before \ {key} : after[k] = before[k]

\* map after is map before without key and nothing else changed
RemovesOnly(before, after, key) ==
    /\ DOMAIN after = DOMAIN before \ {key}
    /\ \A k \in DOMAIN after : after[k] = before[k]

\* C30: each registry holds at most one responder per session; a call that
\* sets a responder leaves exactly that responder registered for the
\* session and kind, replacing any earlier one, a call that clears removes
\* it, and either call leaves the responders of other sessions and the
\* registry of the other kind as they were; nothing else changes a
\* registry.
C30_OneResponderPerSessionAndKind ==
    /\ [](/\ \A sid \in DOMAIN userInputHandlers : userInputHandlers[sid] \in Handlers
          /\ \A sid \in DOMAIN permissionHandlers : permissionHandlers[sid] \in Handlers)
    /\ [][LET r == registration' IN
          IF r = registration
          THEN /\ userInputHandlers' = userInputHandlers
               /\ permissionHandlers' = permissionHandlers
          ELSE CASE r.op = "setUserInputHandler" ->
                      /\ SetsOnly(userInputHandlers, userInputHandlers',
                                  r.sessionId, r.handler)
                      /\ permissionHandlers' = permissionHandlers
                 [] r.op = "clearUserInputHandler" ->
                      /\ RemovesOnly(userInputHandlers, userInputHandlers',
                                     r.sessionId)
                      /\ permissionHandlers' = permissionHandlers
                 [] r.op = "setPermissionHandler" ->
                      /\ SetsOnly(permissionHandlers, permissionHandlers',
                                  r.sessionId, r.handler)
                      /\ userInputHandlers' = userInputHandlers
                 [] r.op = "clearPermissionHandler" ->
                      /\ RemovesOnly(permissionHandlers, permissionHandlers',
                                     r.sessionId)
                      /\ userInputHandlers' = userInputHandlers
                 [] OTHER -> FALSE]_vars

\* responder h2 has been set over responder h1, which still holds a pending
\* user-input request of the session; the permission responder of the
\* session and the responders of the other session are registered
C30_Witness ==
    \E q \in Requests :
        LET sid == runtime.objects[requests[q].session].sessionId IN
        /\ requests[q].kind = "userInput"
        /\ requests[q].state = "pending"
        /\ requests[q].handler = "h1"
        /\ registration = [op |-> "setUserInputHandler", sessionId |-> sid,
                           handler |-> "h2"]
        /\ userInputHandlers[sid] = "h2"
        /\ sid \in DOMAIN permissionHandlers
        /\ \E other \in RouterSessions \ {sid} :
              other \in DOMAIN userInputHandlers
                 /\ other \in DOMAIN permissionHandlers


---------------------------------------------------------------------------
(* C31: the responder of a send is cleared however the exchange ends *)

\* the caller of exchange e has received a terminal signal
Concluded(e) == ex[e].terminal # <<>>

\* the responder that the send-message handler registered for exchange e is
\* still registered
ResponderRegistered(e) ==
    /\ ex[e].transport # "none"
    /\ ex[e].sessionId \in DOMAIN userInputHandlers
    /\ userInputHandlers[ex[e].sessionId] = handlerOf(e)

\* C31: whenever an exchange sent through the send-message handler has
\* delivered its terminal signal (onComplete or onError, whether by success,
\* session-error or timeout), the user-input responder registered for it is
\* cleared from then on or soon after: eventually no responder of the
\* exchange is registered.
C31_ResponderCleared ==
    \A e \in Exchanges : Concluded(e) ~> ~ResponderRegistered(e)


---------------------------------------------------------------------------
(* C32: exchanges on different sessions *)

\* what belongs to exchange e: the locals and callbacks of its sendMessage
\* call and the cached history of its session
Own(st, e) ==
    [ex    |-> st.ex[e],
     cache |-> IF st.ex[e].sessionId \in DOMAIN st.cache
               THEN <<st.cache[st.ex[e].sessionId]>> ELSE <<>>]

\* the state as it would be had no exchange but e ever been started and no
\* session but that of e ever been used
Alone(st, e) ==
    LET sid == st.ex[e].sessionId
        Only(m) == [k \in (DOMAIN m) \cap {sid} |-> m[k]]
    IN  [st EXCEPT !.ex = [x \in DOMAIN @ |-> IF x = e THEN @[x] ELSE NewExchange(x)],
                   !.cache = Only(@),
                   !.activeSessions = Only(@),
                   !.sessionAgentMap = Only(@),
                   !.sessionPermissionPolicy = Only(@)]

\* the states that one step of exchange e can lead to from st
Successors(st, e) ==
    LET x == st.ex[e]
        When(cond, S) == IF cond THEN S ELSE {}
    IN  When(x.pc = "idle", {[st EXCEPT !.ex[e].pc = "resolving"]})
        \cup When(x.pc = "resolving",
                  {Attach(HandleCached(st, x.sessionId), e), Catch(st, e, SessionError)})
        \cup When(x.pc = "sending",
                  {AwaitCompletion(st, e), Catch(st, e, SendError)})
        \cup When(x.listening,
               {OnMessageDelta(Received(st, e, [kind |-> "delta", text |-> d]), e, d) :
                    d \in DeltaTexts}
               \cup {OnReasoningDelta(Received(st, e, [kind |-> "reasoning", text |-> d]), e, d) :
                    d \in DeltaTexts}
               \cup UNION {{OnToolStart(Received(st, e, [kind |-> "tool_start", id |-> id]),
                                        e, id, name) : name \in ToolNames} :
                              id \in ToolCallIds}
               \cup {OnToolComplete(Received(st, e, [kind |-> "tool_complete", id |-> id]), e, id) :
                    id \in ToolCallIds}
               \cup {OnToolError(Received(st, e, [kind |-> "tool_error", id |-> id]), e, id) :
                    id \in ToolCallIds}
               \cup UNION {{OnAssistantMessage(
                               Received(st, e, [kind |-> "message", content |-> c,
                                                toolRequests |-> tr]), e, c, tr) :
                               tr \in BOOLEAN} : c \in MessageContents}
               \cup {OnSessionError(Received(st, e, [kind |-> "session_error", message |-> m]),
                                    e, m) : m \in ErrorMessages}
               \cup {OnSessionIdle(Received(st, e, [kind |-> "idle"]), e)})
        \cup When(x.checkComplete /\ x.completed, {CheckComplete(st, e)})
        \cup When(x.timeoutHandle = "armed", {OnTimeout(st, e)})
        \cup When(x.fallbacks # <<>>, {FallbackWake(st, e)})
        \cup When(x.cleanupTimers > 0, {CleanupTimerFired(st, e)})

\* C32: with two exchanges running at once on different sessions, every
\* step of one exchange leaves what belongs to the other (buffer, pending
\* count, completed latch, callbacks received, cached history of its
\* session) as it was, and changes what belongs to itself exactly as a step
\* of that exchange does when the other exchange and the other session do
\* not exist.
C32_ExchangesIndependent ==
    [][\A e \in Pair :
          ex'[e] # ex[e] =>
             /\ \A o \in Pair \ {e} : Own(State', o) = Own(State, o)
             /\ Own(State', e) \in {Own(s, e) : s \in Successors(Alone(State, e), e)}]_vars

\* both exchanges have run side by side: the first has completed with the
\* content of a message, the second has failed, and each session's cache
\* holds its own turns
C32_Witness ==
    /\ Len(ex[1].terminal) = 1
    /\ ex[1].terminal[1].kind = "complete"
    /\ ex[1].terminal[1].val = Short
    /\ Len(ex[2].terminal) = 1
    /\ ex[2].terminal[1].kind = "error"
    /\ "s1" \in DOMAIN cache /\ Len(cache["s1"]) = 2
    /\ "s2" \in DOMAIN cache /\ Len(cache["s2"]) = 1


---------------------------------------------------------------------------
\* C33: once an exchange has delivered its terminal signal, the promise of
\* sendMessage eventually settles, that is sendMessage returns, and the
\* polling interval of the exchange is cleared; in particular after a
\* session-error event has produced onError.
C33_SettlesAfterTerminal ==
    \A e \in Exchanges :
        Concluded(e) ~> (ex[e].pc = "returned" /\ ~ex[e].checkComplete)


---------------------------------------------------------------------------
\* onComplete is invoked for exchange e in this step
Completes(e) ==
    /\ Len(ex'[e].terminal) = Len(ex[e].terminal) + 1
    /\ ex'[e].terminal[Len(ex'[e].terminal)].kind = "complete"

\* the content that onComplete is invoked with in this step
CompletedWith(e) == ex'[e].terminal[Len(ex'[e].terminal)].val

\* C34: whenever onComplete(content) is invoked, content is the in-order
\* concatenation of all the texts that onDelta has delivered in the
\* exchange, real deltas and synthetic chunks alike.
C34_ContentIsDeltas ==
    [][\A e \in Exchanges : Completes(e) => CompletedWith(e) = ex'[e].deltaOut]_vars


---------------------------------------------------------------------------
\* C35: once onComplete or onError has been delivered for an exchange, no
\* onDelta callback is delivered for it any more, be it for a delta event or
\* for a synthetic chunk of a fallback stream that is still running.
C35_NoDeltaAfterTerminal ==
    [][\A e \in Exchanges : Concluded(e) => ex'[e].nDelta = ex[e].nDelta]_vars


---------------------------------------------------------------------------
\* the timeout callback runs in this step
TimesOut(e) == ex[e].timeoutHandle = "armed" /\ ex'[e].timeoutHandle = "fired"

\* C36: except when the timeout fires, onComplete is never invoked while the
\* pending-tool-call counter is nonzero; a tool-start that arrives after a
\* message has begun fallback streaming defers completion until the tool
\* call has ended.
C36_NoCompleteWhilePending ==
    [][\A e \in Exchanges :
          (Completes(e) /\ ~TimesOut(e)) => ex'[e].pendingToolCalls = 0]_vars


---------------------------------------------------------------------------
\* deleteSession has purged session sid
WasPurged(sid) ==
    \E c \in Calls : /\ calls[c].op = "delete"
                     /\ calls[c].sessionId = sid
                     /\ calls[c].pc \in {"deleting", "returned"}

\* a send for session sid gets its session and records its prompt in this
\* step
RecordsPrompt(sid) ==
    \E e \in Exchanges : /\ ex[e].sessionId = sid
                         /\ ex[e].pc = "resolving"
                         /\ ex'[e].pc = "sending"

\* C37: once deleteSession(id) has purged the session, the history cache
\* has no list for id until a send for id records its prompt: an exchange
\* that was in flight when the session was deleted does not bring the list
\* back when it finalizes later.
C37_PurgedStaysPurged ==
    [][\A sid \in SessionIds :
          (WasPurged(sid) /\ sid \notin DOMAIN cache /\ ~RecordsPrompt(sid))
          => sid \notin DOMAIN cache']_vars


---------------------------------------------------------------------------
\* call c asks the runtime to resume or to create the session in this step
AsksRuntime(c) ==
    /\ calls'[c].op = "getOrCreate"
    /\ Len(calls'[c].issued) = Len(calls[c].issued) + 1
    /\ calls'[c].issued[Len(calls'[c].issued)] \in {"resume", "create"}

\* call d of getOrCreateSession for session sid is in flight and has a
\* resume or a creation outstanding
Outstanding(d, sid) ==
    /\ calls[d].op = "getOrCreate"
    /\ calls[d].sessionId = sid
    /\ calls[d].pc \in {"resuming", "creating"}

\* C38: when two getOrCreateSession calls for the same uncached id are in
\* flight at once, only one of them asks the runtime to resume or create
\* the session, and both return the same handle: no call asks the runtime
\* while another call's resume or creation for the id is outstanding, and a
\* call that completes when a handle has been cached meanwhile returns the
\* cached handle.
C38_OneRuntimeCallWhenConcurrent ==
    [][\A c \in Calls :
          /\ AsksRuntime(c) =>
                \A d \in Calls \ {c} : ~Outstanding(d, calls'[c].sessionId)
          /\ (Registers(c) /\ calls[c].op = "getOrCreate"
                /\ calls[c].sessionId \in DOMAIN activeSessions)
                => calls'[c].handle = activeSessions[calls[c].sessionId]]_vars


---------------------------------------------------------------------------
\* every session id with a cached handle has a recorded permission policy
\* and a recorded agent association
HandlesRecorded ==
    \A sid \in DOMAIN activeSessions :
        /\ sid \in DOMAIN sessionPermissionPolicy
        /\ sid \in DOMAIN sessionAgentMap

\* C39: every session id with a cached handle also has a recorded
\* permission policy and a recorded agent association, whether the handle
\* came from a creation or from a resumption: no step of the registry leads
\* from a state where this is so to a state where it is not.
C39_HandleHasPolicyAndAgent ==
    [][HandlesRecorded => HandlesRecorded']_vars


---------------------------------------------------------------------------
\* the terminal events the client has received for exchange e in sync mode
TerminalEvents(e) ==
    SelectSeq(ex[e].emitted, LAMBDA k : k \in {"message-error", "message-complete"})

\* sendAndWait or the session resolution of sync exchange e failed
SyncFailed(e) ==
    \E i \in 1..Len(ex[e].emitted) : ex[e].emitted[i] = "message-error"

\* C40: in sync mode the client receives exactly one terminal event per
\* exchange: never more than one, one when the handler is done, and when
\* sendAndWait or the session resolution failed that event is message-error
\* and not message-complete; the tool listeners are detached when
\* sendMessageSync has returned, on both outcomes.
C40_SyncOneTerminalEvent ==
    \A e \in Exchanges :
        /\ Len(TerminalEvents(e)) <= 1
        /\ ex[e].transport = "done" => Len(TerminalEvents(e)) = 1
        /\ SyncFailed(e) => TerminalEvents(e) = <<"message-error">>
        /\ (ex[e].transport \in {"awaitingSync", "done"} /\ ex[e].pc = "returned")
              => ~ex[e].listening

============================================================================
